---------------------------- MODULE Spec2Model ----------------------------
(***************************************************************************)
(* A model of the polymarket-copy-bot decision pipeline (src/src/*.rs):    *)
(* the Risk Ledger (risk_manager.rs), the Arbitrage Detector               *)
(* (arbitrage_detector.rs), the Order Executor (order_executor.rs) and the *)
(* per-wallet Copy Trader (copy_trader.rs).                                *)
(*                                                                         *)
(* Numbers.  The program computes in f64.  The model computes in exact     *)
(* fixed point: USD amounts are integers of cents, prices are integers of  *)
(* hundredths (0.40 is 40), a ratio is a pair (numerator, denominator).    *)
(* The inputs are chosen so that every quotient the code takes is exact.   *)
(* An Option<T> is a sequence: << >> is None and <<v>> is Some(v).         *)
(***************************************************************************)
EXTENDS Integers, Sequences, FiniteSets, TLC

Markets == {"m1", "m2"}
Outcomes == {"YES", "NO"}
Sides == {"buy", "sell"}

None == << >>
Some(v) == <<v>>
IsSome(o) == Len(o) = 1
Unwrap(o) == o[1]

(***************************************************************************)
(* Bounds of the model.                                                    *)
(***************************************************************************)
\* record_position / close_position calls explored on one ledger
MaxWrites == 3
\* calendar days the clock runs through after construction
MaxDay == 1
\* market ids handed to one scan_markets call
MaxBatch == 2
\* trades delivered to the Copy Traders, all wallets together
MaxDeliveries == 2
\* place_order and cancel_order calls made on the executor alone
MaxExecCalls == 3
\* raw trade records the data source returns to the monitor, all polls together
MaxFetched == 3

\* raw trade records in one get_wallet_trades answer
MaxPoll == 2
\* poll cycles of the start_monitoring loop that are counted
MaxCycles == 3
\* stop_monitoring calls
MaxStops == 2
\* process_trade calls of one trader that take locks
MaxRuns == 1

VARIABLES
    riskCfg,    \* RiskManager.config
    rm,         \* RiskManager: positions, total_exposure, daily_pnl, last_reset_date
    today,      \* the calendar day Utc::now() falls in
    writes,     \* number of record_position / close_position calls so far
    call,       \* the latest ledger operation: its name, arguments and result
    lastSnap,   \* the latest get_exposure snapshot, while no write has followed it
    arbCfg,     \* ArbitrageDetector.config
    active_opportunities,   \* ArbitrageDetector.active_opportunities
    scan,       \* the latest detector operation: its arguments, progress and result
    active_orders,  \* OrderExecutor.active_orders
    ecall,      \* the latest call made on the executor alone: arguments, answer, result
    walletCfg,  \* CopyTrader.config, per wallet
    copied_trades,  \* CopyTrader.copied_trades (the keys), per wallet
    trader,     \* per wallet: where its process_trade call stands, and its locals
    log,        \* per wallet: what each completed process_trade call did and returned
    trade_history,  \* WalletMonitor.trade_history, per wallet
    mon,        \* the check_wallet call running: its batch, its position, its last step
    forwarded,  \* per wallet: the trades handed to the callback, in order
    loop,       \* the start_monitoring loop, the running flag and the stop tasks spawned
    lk          \* the RwLocks the traders share: holders, waiters, each trader's position

riskVars == <<riskCfg, rm, today, writes, call, lastSnap>>
arbVars == <<arbCfg, active_opportunities, scan>>
execVars == <<active_orders, ecall>>
copyVars == <<walletCfg, copied_trades, trader, log>>
monVars == <<trade_history, mon, forwarded>>
taskVars == <<loop, lk>>
vars == <<riskVars, arbVars, execVars, copyVars, monVars, taskVars>>

(***************************************************************************)
(* Risk Ledger, src/src/risk_manager.rs                                    *)
(***************************************************************************)
\* RiskConfig values the ledger is run with (env: MAX_TOTAL_EXPOSURE_USD,
\* MAX_POSITION_PER_MARKET_USD, MAX_DAILY_LOSS_USD), in cents.
RiskConfigs ==
    { [max_total_exposure_usd |-> 100000, max_position_per_market_usd |-> 100000,
       max_daily_loss_usd |-> 45000],
      [max_total_exposure_usd |-> 200000, max_position_per_market_usd |-> 100000,
       max_daily_loss_usd |-> 50000] }

\* RiskManager::new
RiskManagerNew(now) ==
    [positions |-> << >>, total_exposure |-> 0, daily_pnl |-> 0, last_reset_date |-> now]

\* iter().map(|p| p.size_usd).sum()
RECURSIVE SumSizes(_)
SumSizes(ps) == IF ps = << >> THEN 0 ELSE ps[1].size_usd + SumSizes(Tail(ps))

\* self.positions.get(market_id).map(|v| v.as_slice()).unwrap_or(&[])
MarketPositions(r, market_id) ==
    IF market_id \in DOMAIN r.positions THEN r.positions[market_id] ELSE << >>

\* The mutant of can_open_position: the total-exposure comparison reversed.
can_open_position_reversed(cfg, r, market_id, size_usd) ==
    IF r.daily_pnl <= -cfg.max_daily_loss_usd THEN FALSE
    ELSE IF r.total_exposure + size_usd < cfg.max_total_exposure_usd THEN FALSE
    ELSE IF SumSizes(MarketPositions(r, market_id)) + size_usd
              > cfg.max_position_per_market_usd THEN FALSE
    ELSE TRUE

\* The mutant of can_open_position: the daily-loss limit compared with <.
can_open_position_strict(cfg, r, market_id, size_usd) ==
    IF r.daily_pnl < -cfg.max_daily_loss_usd THEN FALSE
    ELSE IF r.total_exposure + size_usd > cfg.max_total_exposure_usd THEN FALSE
    ELSE IF SumSizes(MarketPositions(r, market_id)) + size_usd
              > cfg.max_position_per_market_usd THEN FALSE
    ELSE TRUE

\* The mutant of can_open_position: only the daily-loss limit is checked.
can_open_position_daily_only(cfg, r, market_id, size_usd) ==
    IF r.daily_pnl <= -cfg.max_daily_loss_usd THEN FALSE ELSE TRUE

\* RiskManager::can_open_position
can_open_position(cfg, r, market_id, size_usd) ==
    IF r.daily_pnl <= -cfg.max_daily_loss_usd THEN FALSE
    ELSE IF r.total_exposure + size_usd > cfg.max_total_exposure_usd THEN FALSE
    ELSE IF SumSizes(MarketPositions(r, market_id)) + size_usd
              > cfg.max_position_per_market_usd THEN FALSE
    ELSE TRUE

\* The mutant of record_position: the caps are validated again and a position that
\* breaks one is not recorded.
record_position_revalidating(r, market_id, size_usd, outcome, side, entry_price) ==
    LET position == [market_id |-> market_id, outcome |-> outcome, side |-> side,
                     size_usd |-> size_usd,
                     entry_price |-> IF IsSome(entry_price) THEN Unwrap(entry_price) ELSE 0]
        keys == DOMAIN r.positions \cup {market_id}
    IN IF ~can_open_position(riskCfg, r, market_id, size_usd) THEN r
       ELSE [r EXCEPT
               !.positions = [k \in keys |->
                                IF k = market_id
                                THEN Append(MarketPositions(r, market_id), position)
                                ELSE r.positions[k]],
               !.total_exposure = r.total_exposure + size_usd]

\* RiskManager::record_position
record_position(r, market_id, size_usd, outcome, side, entry_price) ==
    LET position == [market_id |-> market_id, outcome |-> outcome, side |-> side,
                     size_usd |-> size_usd,
                     entry_price |-> IF IsSome(entry_price) THEN Unwrap(entry_price) ELSE 0]
        keys == DOMAIN r.positions \cup {market_id}
    IN [r EXCEPT
          !.positions = [k \in keys |->
                           IF k = market_id
                           THEN Append(MarketPositions(r, market_id), position)
                           ELSE r.positions[k]],
          !.total_exposure = r.total_exposure + size_usd]

\* The mutant of MatchingIndex: the side of the position is not looked at.
MatchingIndex_any_side(ps, outcome) ==
    LET hits == {i \in 1..Len(ps) : ps[i].outcome = outcome}
    IN IF hits = {} THEN 0 ELSE CHOOSE i \in hits : \A j \in hits : i <= j

\* positions.iter().position(|p| p.outcome == outcome && p.side == "buy"):
\* the least matching index, 0 when there is none
MatchingIndex(ps, outcome) ==
    LET hits == {i \in 1..Len(ps) : ps[i].outcome = outcome /\ ps[i].side = "buy"}
    IN IF hits = {} THEN 0 ELSE CHOOSE i \in hits : \A j \in hits : i <= j

\* Vec::remove(index)
RemoveAt(ps, i) == [j \in 1..(Len(ps) - 1) |-> IF j < i THEN ps[j] ELSE ps[j + 1]]

\* The mutant of ClosePnl: the entry price is not subtracted from the exit price.
ClosePnl_gross(position, exit_price) ==
    IF IsSome(exit_price) /\ position.entry_price > 0
    THEN (Unwrap(exit_price) * position.size_usd) \div position.entry_price
    ELSE 0

\* The pnl of close_position: 0 without an exit price or with entry_price <= 0
ClosePnl(position, exit_price) ==
    IF IsSome(exit_price) /\ position.entry_price > 0
    THEN ((Unwrap(exit_price) - position.entry_price) * position.size_usd)
             \div position.entry_price
    ELSE 0

\* The mutant of close_position: the removed position's size stays in total_exposure.
close_position_exposure_kept(r, market_id, outcome, exit_price) ==
    LET ps == MarketPositions(r, market_id)
        idx == MatchingIndex(ps, outcome)
    IN IF market_id \notin DOMAIN r.positions \/ idx = 0
       THEN [rm |-> r, ret |-> None]
       ELSE [rm |-> [r EXCEPT !.positions[market_id] = RemoveAt(ps, idx),
                              !.daily_pnl = r.daily_pnl + ClosePnl(ps[idx], exit_price)],
             ret |-> Some(ClosePnl(ps[idx], exit_price))]

\* The mutant of close_position: the last matching position is removed (LIFO).
close_position_lifo(r, market_id, outcome, exit_price) ==
    LET ps == MarketPositions(r, market_id)
        hits == {i \in 1..Len(ps) : ps[i].outcome = outcome /\ ps[i].side = "buy"}
        idx == IF hits = {} THEN 0 ELSE CHOOSE i \in hits : \A j \in hits : i >= j
    IN IF idx = 0 THEN [rm |-> r, ret |-> None]
       ELSE [rm |-> [r EXCEPT !.positions[market_id] = RemoveAt(ps, idx),
                              !.total_exposure = r.total_exposure - ps[idx].size_usd,
                              !.daily_pnl = r.daily_pnl + ClosePnl(ps[idx], exit_price)],
             ret |-> Some(ClosePnl(ps[idx], exit_price))]

\* RiskManager::close_position: the ledger after the call and the value returned
close_position(r, market_id, outcome, exit_price) ==
    LET ps == MarketPositions(r, market_id)
        idx == MatchingIndex(ps, outcome)
    IN IF market_id \notin DOMAIN r.positions \/ idx = 0
       THEN [rm |-> r, ret |-> None]
       ELSE [rm |-> [r EXCEPT !.positions[market_id] = RemoveAt(ps, idx),
                              !.total_exposure = r.total_exposure - ps[idx].size_usd,
                              !.daily_pnl = r.daily_pnl + ClosePnl(ps[idx], exit_price)],
             ret |-> Some(ClosePnl(ps[idx], exit_price))]

RECURSIVE CountPositions(_, _)
CountPositions(r, keys) ==
    IF keys = {} THEN 0
    ELSE LET k == CHOOSE x \in keys : TRUE
         IN Len(r.positions[k]) + CountPositions(r, keys \ {k})

\* The ExposureMetrics get_exposure builds from a ledger
Metrics(cfg, r) ==
    [total_exposure_usd |-> r.total_exposure,
     daily_pnl_usd |-> r.daily_pnl,
     open_positions |-> CountPositions(r, DOMAIN r.positions),
     market_exposures |-> [k \in DOMAIN r.positions |-> SumSizes(r.positions[k])],
     available_exposure |-> cfg.max_total_exposure_usd - r.total_exposure]

\* The mutant of get_exposure: the snapshot is built before the daily roll.
get_exposure_stale(cfg, r, now1, now2) ==
    LET r2 == IF now1 # r.last_reset_date
              THEN [r EXCEPT !.daily_pnl = 0, !.last_reset_date = now2]
              ELSE r
    IN [rm |-> r2, ret |-> Metrics(cfg, r)]

\* The mutant of get_exposure: the day of the reset is not recorded.
get_exposure_day_not_recorded(cfg, r, now1, now2) ==
    LET r2 == IF now1 # r.last_reset_date
              THEN [r EXCEPT !.daily_pnl = 0]
              ELSE r
    IN [rm |-> r2, ret |-> Metrics(cfg, r2)]

\* RiskManager::get_exposure.  now1 is the day of the first Utc::now() (line 153),
\* now2 the day of the second (line 157).
get_exposure(cfg, r, now1, now2) ==
    LET r2 == IF now1 # r.last_reset_date
              THEN [r EXCEPT !.daily_pnl = 0, !.last_reset_date = now2]
              ELSE r
    IN [rm |-> r2, ret |-> Metrics(cfg, r2)]

(***************************************************************************)
(* Arbitrage Detector, src/src/arbitrage_detector.rs                       *)
(*                                                                         *)
(* A normalized order book is [YES |-> asks, NO |-> asks], asks an Option  *)
(* (None: the outcome or its "asks" array is missing) of a sequence of     *)
(* entries [price |-> Option, size |-> Option]: a price is None when the   *)
(* entry's "price" is missing, not a string or does not parse; a size is   *)
(* None when "size" is missing or not a number.  profit_pct is the ratio   *)
(* <<numerator, denominator>>; fee_adjusted_cost is in 1/10000.            *)
(***************************************************************************)
\* ArbitrageConfig values (env: MIN_ARB_PROFIT_PCT, MAX_ARB_PROFIT_PCT, ...):
\* profit thresholds in 1/10000, min_liquidity_usd in cents.
ArbitrageConfigs ==
    { [min_arb_profit_pct |-> 100, max_arb_profit_pct |-> 500,
       internal_arb_enabled |-> TRUE, cross_platform_enabled |-> FALSE,
       min_liquidity_usd |-> 100000],
      [min_arb_profit_pct |-> 300, max_arb_profit_pct |-> 500,
       internal_arb_enabled |-> TRUE, cross_platform_enabled |-> TRUE,
       min_liquidity_usd |-> 1000],
      [min_arb_profit_pct |-> 100, max_arb_profit_pct |-> 500,
       internal_arb_enabled |-> FALSE, cross_platform_enabled |-> TRUE,
       min_liquidity_usd |-> 1000],
      [min_arb_profit_pct |-> 0, max_arb_profit_pct |-> 500,
       internal_arb_enabled |-> TRUE, cross_platform_enabled |-> FALSE,
       min_liquidity_usd |-> 1000] }

\* The sort key of get_best_ask: the parsed price, 0.0 when it does not parse
AskKey(a) == IF IsSome(a.price) THEN Unwrap(a.price) ELSE 0

\* One insertion of a stable ascending sort: behind every entry whose key is not larger
RECURSIVE InsertAsk(_, _)
InsertAsk(sorted, a) ==
    IF sorted = << >> THEN <<a>>
    ELSE IF AskKey(sorted[1]) <= AskKey(a)
         THEN <<sorted[1]>> \o InsertAsk(Tail(sorted), a)
         ELSE <<a>> \o sorted

\* sorted_asks.sort_by(price ascending): a stable sort
RECURSIVE SortAsks(_)
SortAsks(asks) ==
    IF asks = << >> THEN << >>
    ELSE InsertAsk(SortAsks(SubSeq(asks, 1, Len(asks) - 1)), asks[Len(asks)])

\* The mutant of get_best_ask: the first ask as listed, without sorting.
get_best_ask_unsorted(order_book, outcome) ==
    IF ~IsSome(order_book[outcome]) THEN None
    ELSE IF Unwrap(order_book[outcome]) = << >> THEN None
    ELSE Some(Unwrap(order_book[outcome])[1])

\* ArbitrageDetector::get_best_ask
get_best_ask(order_book, outcome) ==
    IF ~IsSome(order_book[outcome]) THEN None
    ELSE IF Unwrap(order_book[outcome]) = << >> THEN None
    ELSE Some(SortAsks(Unwrap(order_book[outcome]))[1])

\* total_cost * 1.01, in 1/10000
FeeAdjustedCost(total_cost) == total_cost * 101

\* The mutant of detect_internal_arbitrage: the fee is left out of profit_pct.
detect_internal_arbitrage_no_fee(market_id, order_book) ==
    LET yes_best_ask == get_best_ask(order_book, "YES")
        no_best_ask == get_best_ask(order_book, "NO")
    IN IF ~IsSome(yes_best_ask) \/ ~IsSome(no_best_ask) THEN None
       ELSE IF ~IsSome(Unwrap(yes_best_ask).price) \/ ~IsSome(Unwrap(no_best_ask).price)
       THEN None
       ELSE LET yes_price == Unwrap(Unwrap(yes_best_ask).price)
                no_price == Unwrap(Unwrap(no_best_ask).price)
                total_cost == yes_price + no_price
                yes_size == Unwrap(yes_best_ask).size
                no_size == Unwrap(no_best_ask).size
            IN IF FeeAdjustedCost(total_cost) < 9900
               THEN Some([market_id |-> market_id,
                          opportunity_type |-> "internal",
                          yes_price |-> yes_price,
                          no_price |-> no_price,
                          total_cost |-> total_cost,
                          profit_pct |-> <<100 - total_cost, total_cost>>,
                          profit_usd |-> <<100 - total_cost, total_cost>>,
                          liquidity_yes |->
                              (IF IsSome(yes_size) THEN Unwrap(yes_size) ELSE 0) * yes_price,
                          liquidity_no |->
                              (IF IsSome(no_size) THEN Unwrap(no_size) ELSE 0) * no_price])
               ELSE None

\* The mutant of detect_internal_arbitrage: the margin test is <= 0.99.
detect_internal_arbitrage_le(market_id, order_book) ==
    LET yes_best_ask == get_best_ask(order_book, "YES")
        no_best_ask == get_best_ask(order_book, "NO")
    IN IF ~IsSome(yes_best_ask) \/ ~IsSome(no_best_ask) THEN None
       ELSE IF ~IsSome(Unwrap(yes_best_ask).price) \/ ~IsSome(Unwrap(no_best_ask).price)
       THEN None
       ELSE LET yes_price == Unwrap(Unwrap(yes_best_ask).price)
                no_price == Unwrap(Unwrap(no_best_ask).price)
                total_cost == yes_price + no_price
                fee_adjusted_cost == FeeAdjustedCost(total_cost)
                yes_size == Unwrap(yes_best_ask).size
                no_size == Unwrap(no_best_ask).size
            IN IF fee_adjusted_cost <= 10000
               THEN Some([market_id |-> market_id,
                          opportunity_type |-> "internal",
                          yes_price |-> yes_price,
                          no_price |-> no_price,
                          total_cost |-> total_cost,
                          profit_pct |-> <<10000 - fee_adjusted_cost, fee_adjusted_cost>>,
                          profit_usd |-> <<10000 - fee_adjusted_cost, fee_adjusted_cost>>,
                          liquidity_yes |->
                              (IF IsSome(yes_size) THEN Unwrap(yes_size) ELSE 0) * yes_price,
                          liquidity_no |->
                              (IF IsSome(no_size) THEN Unwrap(no_size) ELSE 0) * no_price])
               ELSE None

\* ArbitrageDetector::detect_internal_arbitrage
detect_internal_arbitrage(market_id, order_book) ==
    LET yes_best_ask == get_best_ask(order_book, "YES")
        no_best_ask == get_best_ask(order_book, "NO")
    IN IF ~IsSome(yes_best_ask) \/ ~IsSome(no_best_ask) THEN None
       ELSE IF ~IsSome(Unwrap(yes_best_ask).price) \/ ~IsSome(Unwrap(no_best_ask).price)
       THEN None
       ELSE LET yes_price == Unwrap(Unwrap(yes_best_ask).price)
                no_price == Unwrap(Unwrap(no_best_ask).price)
                total_cost == yes_price + no_price
                fee_adjusted_cost == FeeAdjustedCost(total_cost)
                yes_size == Unwrap(yes_best_ask).size
                no_size == Unwrap(no_best_ask).size
            IN IF fee_adjusted_cost < 9900
               THEN Some([market_id |-> market_id,
                          opportunity_type |-> "internal",
                          yes_price |-> yes_price,
                          no_price |-> no_price,
                          total_cost |-> total_cost,
                          profit_pct |-> <<10000 - fee_adjusted_cost, fee_adjusted_cost>>,
                          profit_usd |-> <<10000 - fee_adjusted_cost, fee_adjusted_cost>>,
                          liquidity_yes |->
                              (IF IsSome(yes_size) THEN Unwrap(yes_size) ELSE 0) * yes_price,
                          liquidity_no |->
                              (IF IsSome(no_size) THEN Unwrap(no_size) ELSE 0) * no_price])
               ELSE None

\* ArbitrageDetector::detect_cross_platform_arbitrage: a stub
detect_cross_platform_arbitrage(market_id, order_book) == None

\* The mutant of is_valid: the liquidity floor is not checked.
is_valid_no_liquidity(cfg, opp) ==
    IF opp.profit_pct[1] * 10000 < cfg.min_arb_profit_pct * opp.profit_pct[2] THEN FALSE
    ELSE IF opp.profit_pct[1] * 10000 > cfg.max_arb_profit_pct * opp.profit_pct[2] THEN FALSE
    ELSE TRUE

\* ArbitrageDetector::is_valid
is_valid(cfg, opp) ==
    IF opp.profit_pct[1] * 10000 < cfg.min_arb_profit_pct * opp.profit_pct[2] THEN FALSE
    ELSE IF opp.profit_pct[1] * 10000 > cfg.max_arb_profit_pct * opp.profit_pct[2] THEN FALSE
    ELSE IF opp.liquidity_yes < cfg.min_liquidity_usd THEN FALSE
    ELSE IF opp.liquidity_no < cfg.min_liquidity_usd THEN FALSE
    ELSE TRUE

\* ArbitrageDetector::scan_market; fetched is what get_order_book returned
scan_market(cfg, market_id, fetched) ==
    IF ~IsSome(fetched) THEN None
    ELSE LET order_book == Unwrap(fetched)
             internal == IF cfg.internal_arb_enabled
                         THEN detect_internal_arbitrage(market_id, order_book)
                         ELSE None
             cross == IF cfg.cross_platform_enabled
                      THEN detect_cross_platform_arbitrage(market_id, order_book)
                      ELSE None
         IN IF IsSome(internal) /\ is_valid(cfg, Unwrap(internal)) THEN internal
            ELSE IF IsSome(cross) /\ is_valid(cfg, Unwrap(cross)) THEN cross
            ELSE None

\* ArbitrageDetector::get_opportunity
get_opportunity(active, market_id) ==
    IF market_id \in DOMAIN active THEN Some(active[market_id]) ELSE None

\* ArbitrageDetector::has_opportunity
has_opportunity(cfg, active, market_id) ==
    IF market_id \in DOMAIN active THEN is_valid(cfg, active[market_id]) ELSE FALSE

\* HashMap::insert(market_id, opp)
InsertOpportunity(active, market_id, opp) ==
    [k \in DOMAIN active \cup {market_id} |-> IF k = market_id THEN opp ELSE active[k]]

(***************************************************************************)
(* Order Executor, src/src/order_executor.rs                               *)
(*                                                                         *)
(* The gateway's answer to place_order is None (transport failure) or      *)
(* Some of a response, with optional fields "id" and "orderId".  The answer to *)
(* cancel_order is a boolean.  A number of shares is the ratio             *)
(* <<usd, price>>.                                                         *)
(***************************************************************************)
\* serde_json::Value::as_str of a JSON value <<"str", s>> or <<"num", n>>
AsStr(v) == IF v[1] = "str" THEN Some(v[2]) ELSE None

\* The id of the next order: result.get("id").or_else(|| result.get("orderId")), taken
\* if it is a string, else a fresh uuid
OrderId(orders, response) ==
    LET v == IF IsSome(response.id) THEN response.id ELSE response.orderId
        id == IF IsSome(v) THEN AsStr(Unwrap(v)) ELSE None
    IN IF IsSome(id) THEN <<"id", Unwrap(id)>>
       ELSE <<"uuid", Cardinality(DOMAIN orders) + 1>>

\* The mutant of place_order: the order is returned but never entered in the table.
place_order_unrecorded(orders, market_id, outcome, side, price, size, answer) ==
    IF IsSome(answer)
    THEN [orders |-> orders,
          ret |-> Some([order_id |-> OrderId(orders, Unwrap(answer)),
                        market_id |-> market_id, outcome |-> outcome, side |-> side,
                        price |-> price, size |-> size, status |-> "pending"])]
    ELSE [orders |-> orders, ret |-> None]

\* OrderExecutor::place_order: the table after the call and the order returned
place_order(orders, market_id, outcome, side, price, size, answer) ==
    IF IsSome(answer)
    THEN LET order_id == OrderId(orders, Unwrap(answer))
             order == [order_id |-> order_id, market_id |-> market_id,
                       outcome |-> outcome, side |-> side, price |-> price,
                       size |-> size, status |-> "pending"]
         IN [orders |-> [k \in DOMAIN orders \cup {order_id} |->
                            IF k = order_id THEN order ELSE orders[k]],
             ret |-> Some(order)]
    ELSE [orders |-> orders, ret |-> None]

\* The mutant of cancel_order: the status flips whatever the gateway answers.
cancel_order_optimistic(orders, order_id, confirmed) ==
    IF order_id \notin DOMAIN orders
    THEN [orders |-> orders, ret |-> FALSE, gateway_called |-> FALSE]
    ELSE [orders |-> [orders EXCEPT ![order_id].status = "cancelled"],
          ret |-> confirmed, gateway_called |-> TRUE]

\* OrderExecutor::cancel_order: the table after the call, the value returned and
\* whether the gateway was called; confirmed is the gateway's answer
cancel_order(orders, order_id, confirmed) ==
    IF order_id \notin DOMAIN orders
    THEN [orders |-> orders, ret |-> FALSE, gateway_called |-> FALSE]
    ELSE IF confirmed
    THEN [orders |-> [orders EXCEPT ![order_id].status = "cancelled"],
          ret |-> TRUE, gateway_called |-> TRUE]
    ELSE [orders |-> orders, ret |-> FALSE, gateway_called |-> TRUE]

\* OrderExecutor::get_active_orders: a clone of the whole table
get_active_orders(orders) == orders

\* OrderExecutor::get_market_orders: the orders of the table on that market
get_market_orders(orders, market_id) ==
    {orders[k] : k \in {i \in DOMAIN orders : orders[i].market_id = market_id}}

(***************************************************************************)
(* Copy Trader, src/src/copy_trader.rs                                     *)
(***************************************************************************)
\* The minimum viable stake of calculate_position_size: 10 USD, in cents
MinViableSize == 1000

\* The mutant of trade_key: the price and the size are part of the key.
trade_key_with_amount(trade) ==
    <<(IF IsSome(trade.tx_hash) THEN Unwrap(trade.tx_hash) ELSE "")
          \o "_" \o trade.market_id \o "_" \o trade.outcome \o "_" \o trade.side,
      trade.price, trade.size_usd>>

\* format!("{}_{}_{}_{}", tx_hash or "", market_id, outcome, side)
trade_key(trade) ==
    (IF IsSome(trade.tx_hash) THEN Unwrap(trade.tx_hash) ELSE "")
        \o "_" \o trade.market_id \o "_" \o trade.outcome \o "_" \o trade.side

\* The mutant of should_copy_wallet: every wallet is copied.
should_copy_wallet_always(cfg, trade) == TRUE

\* CopyTrader::should_copy_wallet
should_copy_wallet(cfg, trade) == cfg.enabled

Min(a, b) == IF a <= b THEN a ELSE b

\* The mutant of calculate_position_size: no minimum viable stake.
calculate_position_size_no_floor(cfg, trade) ==
    Min((trade.size_usd * cfg.position_size_multiplier) \div 100, cfg.max_position_size_usd)

\* CopyTrader::calculate_position_size; position_size_multiplier is in 1/100
calculate_position_size(cfg, trade) ==
    LET base_size == trade.size_usd
        scaled_size == (base_size * cfg.position_size_multiplier) \div 100
        final_size == Min(scaled_size, cfg.max_position_size_usd)
    IN IF final_size < MinViableSize THEN 0 ELSE final_size

\* The mutant of InsertCopied: the key is never marked.
InsertCopied_forgotten(copied, key) == copied

\* self.copied_trades.insert(trade_key, Utc::now()); the timestamp is never read
InsertCopied(copied, key) == copied \cup {key}

\* The mutant of LocalGate: a marked key is not looked up.
LocalGate_no_dedup(cfg, copied, trade) ==
    IF ~should_copy_wallet(cfg, trade) THEN "eligibility"
    ELSE IF IsSome(cfg.markets_filter) /\ trade.market_id \notin Unwrap(cfg.markets_filter)
    THEN "filter"
    ELSE "pass"

\* The gates of process_trade that need no shared component: the gate that
\* drops the trade, or "pass"
LocalGate(cfg, copied, trade) ==
    IF trade_key(trade) \in copied THEN "dedup"
    ELSE IF ~should_copy_wallet(cfg, trade) THEN "eligibility"
    ELSE IF IsSome(cfg.markets_filter) /\ trade.market_id \notin Unwrap(cfg.markets_filter)
    THEN "filter"
    ELSE "pass"

\* The mutant of ExecutionBranch: the opportunity read is ignored.
ExecutionBranch_always_directional(cfg, opp) == "directional"

\* execute_copy_trade: the branch taken for the opportunity read under the wallet's
\* policy
ExecutionBranch(cfg, opp) ==
    IF cfg.require_arb_signal /\ IsSome(opp) /\ Unwrap(opp).opportunity_type = "internal"
    THEN "arbitrage"
    ELSE "directional"

\* The mutant of BothLegsPlaced: one leg is enough.
BothLegsPlaced_either(yes_order, no_order) == IsSome(yes_order) \/ IsSome(no_order)

\* execute_arbitrage_trade: if yes_order.is_some() && no_order.is_some()
BothLegsPlaced(yes_order, no_order) == IsSome(yes_order) /\ IsSome(no_order)

\* The mutant of LegsToCancel: the YES leg is left standing.
LegsToCancel_no_only(yes_order, no_order) ==
    IF IsSome(no_order) THEN <<Unwrap(no_order).order_id>> ELSE << >>

\* execute_arbitrage_trade, the failure branch: the order ids handed to cancel_order,
\* in order
LegsToCancel(yes_order, no_order) ==
    (IF IsSome(yes_order) THEN <<Unwrap(yes_order).order_id>> ELSE << >>)
        \o (IF IsSome(no_order) THEN <<Unwrap(no_order).order_id>> ELSE << >>)

(***************************************************************************)
(* The ledger driven by its callers: one action per public operation.      *)
(***************************************************************************)
\* Arguments record_position is called with: size (cents), outcome, side, entry price
RecordArgs ==
    { [size_usd |-> 90000, outcome |-> "YES", side |-> "buy",  entry_price |-> Some(50)],
      [size_usd |-> 9000,  outcome |-> "YES", side |-> "buy",  entry_price |-> Some(25)],
      [size_usd |-> 15000, outcome |-> "NO",  side |-> "buy",  entry_price |-> Some(50)],
      [size_usd |-> 9000,  outcome |-> "NO",  side |-> "sell", entry_price |-> Some(50)],
      [size_usd |-> 15000, outcome |-> "YES", side |-> "buy",  entry_price |-> None] }
\* Sizes can_open_position is asked about
QuerySizes == {9000, 15000}
\* Exit prices close_position is called with
ExitPrices == {None, Some(25), Some(50)}

NoCall == [op |-> "new", args |-> << >>, ret |-> << >>, prior |-> None]

\* The detector as constructed and left alone
NoScan == [op |-> "new"]
ArbQuiet ==
    /\ arbCfg = CHOOSE c \in ArbitrageConfigs : c.min_liquidity_usd = 100000
    /\ active_opportunities = << >>
    /\ scan = NoScan

\* The wallets copied, src/src/bot.rs: one CopyTrader per wallet
Wallets == {"w1", "w2"}

\* WalletConfig values; a dollar amount is in cents, the multiplier in 1/100
WalletConfigs ==
    { [enabled |-> TRUE, max_position_size_usd |-> 200000, position_size_multiplier |-> 10,
       markets_filter |-> None, require_arb_signal |-> TRUE],
      [enabled |-> TRUE, max_position_size_usd |-> 60000, position_size_multiplier |-> 100,
       markets_filter |-> Some({"m1"}), require_arb_signal |-> FALSE],
      [enabled |-> FALSE, max_position_size_usd |-> 60000, position_size_multiplier |-> 100,
       markets_filter |-> None, require_arb_signal |-> FALSE] }

\* A CopyTrader with no process_trade call running
Idle ==
    [pc |-> "idle", trade |-> None, marked |-> FALSE, size |-> 0, branch |-> "none",
     opp |-> None, yes_order |-> None, no_order |-> None, to_cancel |-> << >>,
     signal_checked |-> FALSE, risk_checked |-> FALSE,
     placements |-> << >>, recorded |-> << >>, cancels |-> << >>,
     gate |-> "none", ret |-> FALSE]

\* No call made on the executor yet
NoExecCall == [op |-> "new", n |-> 0]

\* The executor and the traders as constructed and left alone
CopyQuiet ==
    /\ active_orders = << >>
    /\ ecall = NoExecCall
    /\ walletCfg = [w \in Wallets |->
                      CHOOSE c \in WalletConfigs : c.enabled /\ c.require_arb_signal]
    /\ copied_trades = [w \in Wallets |-> {}]
    /\ trader = [w \in Wallets |-> Idle]
    /\ log = [w \in Wallets |-> << >>]

\* No check_wallet call running; clock is the last instant Utc::now() returned to
\* parse_trade, forwarded_at_poll the number of trades the wallet's callback had
\* received when the poll began
NoPoll ==
    [pc |-> "idle", fetched |-> 0, callback |-> TRUE, wallet |-> "", batch |-> << >>,
     pos |-> 1, step |-> << >>, pending |-> << >>, clock |-> 0, forwarded_at_poll |-> 0]

\* The monitor as constructed and left alone
MonQuiet ==
    /\ trade_history = [w \in Wallets |-> << >>]
    /\ mon = NoPoll
    /\ forwarded = [w \in Wallets |-> << >>]

\* The polling loop before start_monitoring is called: the flag is false
\* (WalletMonitor::new), no stop task is spawned; cleared remembers where the loop stood
\* when a stop task first cleared the flag under it, stop_after_start that stop_monitoring
\* was called after start_monitoring
NoLoop ==
    [pc |-> "new", running |-> FALSE, cycles |-> 0, idx |-> 1, spawned |-> 0,
     stop_calls |-> 0, cleared |-> None, stop_after_start |-> FALSE]

\* The three RwLocks bot.rs creates and hands to every CopyTrader
Locks == {"detector", "risk", "executor"}

\* A trader outside process_trade
IdleTask == [pc |-> "idle", phase |-> "enter", runs |-> 0]

\* No lock held or waited for: held[l] is the set of guards alive, queue[l] the waiters
\* in arrival order
NoLocks ==
    [held |-> [l \in Locks |-> {}], queue |-> [l \in Locks |-> << >>],
     task |-> [w \in Wallets |-> IdleTask]]

\* The loop not started and the locks free
TaskQuiet ==
    /\ loop = NoLoop
    /\ lk = NoLocks

\* The ledger as constructed
RiskNew ==
    /\ today = 0
    /\ rm = RiskManagerNew(0)
    /\ writes = 0
    /\ call = NoCall
    /\ lastSnap = None

InitRisk ==
    /\ riskCfg \in RiskConfigs
    /\ RiskNew
    /\ ArbQuiet
    /\ CopyQuiet
    /\ MonQuiet
    /\ TaskQuiet

RM_CanOpen(m, s) ==
    /\ call' = [op |-> "can_open_position",
                args |-> [market_id |-> m, size_usd |-> s],
                ret |-> can_open_position(riskCfg, rm, m, s),
                prior |-> None]
    /\ UNCHANGED <<riskCfg, rm, today, writes, lastSnap>>
    /\ UNCHANGED <<arbVars, execVars, copyVars, monVars, taskVars>>

RM_Record(m, a) ==
    /\ writes < MaxWrites
    /\ rm' = record_position(rm, m, a.size_usd, a.outcome, a.side, a.entry_price)
    /\ writes' = writes + 1
    /\ call' = [op |-> "record_position",
                args |-> [market_id |-> m, size_usd |-> a.size_usd, outcome |-> a.outcome,
                          side |-> a.side, entry_price |-> a.entry_price,
                          total_before |-> rm.total_exposure,
                          earlier |-> MarketPositions(rm, m)],
                ret |-> << >>,
                prior |-> None]
    /\ lastSnap' = None
    /\ UNCHANGED <<riskCfg, today>>
    /\ UNCHANGED <<arbVars, execVars, copyVars, monVars, taskVars>>

RM_Close(m, o, x) ==
    /\ writes < MaxWrites
    /\ LET res == close_position(rm, m, o, x)
       IN /\ rm' = res.rm
          /\ call' = [op |-> "close_position",
                      args |-> [market_id |-> m, outcome |-> o, exit_price |-> x],
                      ret |-> res.ret,
                      prior |-> IF call.op = "record_position" THEN Some(call.args) ELSE None]
    /\ writes' = writes + 1
    /\ lastSnap' = None
    /\ UNCHANGED <<riskCfg, today>>
    /\ UNCHANGED <<arbVars, execVars, copyVars, monVars, taskVars>>

\* get_exposure reads the clock twice; midnight may pass between the two reads.
RM_GetExposure(now2) ==
    /\ now2 \in {today, today + 1}
    /\ now2 <= MaxDay
    /\ LET res == get_exposure(riskCfg, rm, today, now2)
       IN /\ rm' = res.rm
          /\ call' = [op |-> "get_exposure",
                      args |-> [day |-> today, ledger_before |-> rm],
                      ret |-> res.ret,
                      prior |-> lastSnap]
          /\ lastSnap' = Some([day |-> today, ret |-> res.ret])
    /\ today' = now2
    /\ UNCHANGED <<riskCfg, writes>>
    /\ UNCHANGED <<arbVars, execVars, copyVars, monVars, taskVars>>

\* Midnight passes.
Tick ==
    /\ today < MaxDay
    /\ today' = today + 1
    /\ UNCHANGED <<riskCfg, rm, writes, call, lastSnap>>
    /\ UNCHANGED <<arbVars, execVars, copyVars, monVars, taskVars>>

NextRisk ==
    \/ \E m \in Markets, s \in QuerySizes : RM_CanOpen(m, s)
    \/ \E m \in Markets, a \in RecordArgs : RM_Record(m, a)
    \/ \E m \in Markets, o \in Outcomes, x \in ExitPrices : RM_Close(m, o, x)
    \/ \E d \in 0..MaxDay : RM_GetExposure(d)
    \/ Tick

SpecRisk == InitRisk /\ [][NextRisk]_vars

(***************************************************************************)
(* The detector driven by its callers.  What get_order_book returns is an  *)
(* input of every scan: None when the fetch failed.                        *)
(***************************************************************************)
Ask(p, s) == [price |-> Some(p), size |-> Some(s)]

\* "asks" of the YES outcome: missing, empty, sorted, unsorted, tied, unparsable
YesAsks ==
    { None,
      Some(<< >>),
      Some(<<Ask(40, 100)>>),
      Some(<<Ask(55, 3000), Ask(40, 3000)>>),
      Some(<<Ask(40, 100), Ask(40, 3000)>>),
      Some(<<[price |-> None, size |-> Some(3000)], Ask(40, 3000)>>) }

\* "asks" of the NO outcome
NoAsks ==
    { None,
      Some(<< >>),
      Some(<<Ask(55, 100)>>),
      Some(<<Ask(58, 3000)>>),
      Some(<<Ask(59, 3000)>>),
      Some(<<Ask(40, 3000)>>),
      Some(<<[price |-> Some(55), size |-> None]>>) }

\* What get_order_book answers
Fetches == {None} \cup {Some([YES |-> y, NO |-> n]) : y \in YesAsks, n \in NoAsks}

\* Batches of market ids, duplicates included
Batches == UNION {[1..n -> Markets] : n \in 0..MaxBatch}

ScanIdle == IF scan.op = "scan_markets" THEN scan.pos > Len(scan.ids) ELSE TRUE

InitArb ==
    /\ arbCfg \in ArbitrageConfigs
    /\ active_opportunities = << >>
    /\ scan = NoScan
    /\ riskCfg = CHOOSE c \in RiskConfigs : c.max_total_exposure_usd = 100000
    /\ RiskNew
    /\ CopyQuiet
    /\ MonQuiet
    /\ TaskQuiet

\* scan_market called on its own
Arb_ScanMarket(m, f) ==
    /\ ScanIdle
    /\ scan' = [op |-> "scan_market", market_id |-> m, fetched |-> f,
                ret |-> scan_market(arbCfg, m, f)]
    /\ UNCHANGED <<arbCfg, active_opportunities>>
    /\ UNCHANGED <<riskVars, execVars, copyVars, monVars, taskVars>>

\* scan_markets: entry
Arb_ScanMarketsBegin(ids) ==
    /\ ScanIdle
    /\ scan' = [op |-> "scan_markets", ids |-> ids, pos |-> 1, found |-> << >>,
                opportunities |-> << >>, before |-> active_opportunities]
    /\ UNCHANGED <<arbCfg, active_opportunities>>
    /\ UNCHANGED <<riskVars, execVars, copyVars, monVars, taskVars>>

\* scan_markets: one turn of the loop, with the order book fetched for that id
Arb_ScanMarketsItem(f) ==
    /\ ~ScanIdle
    /\ LET market_id == scan.ids[scan.pos]
           res == scan_market(arbCfg, market_id, f)
       IN /\ scan' = [scan EXCEPT
                        !.pos = @ + 1,
                        !.found = Append(@, res),
                        !.opportunities = IF IsSome(res) THEN Append(@, Unwrap(res)) ELSE @]
          /\ active_opportunities' =
                IF IsSome(res)
                THEN InsertOpportunity(active_opportunities, market_id, Unwrap(res))
                ELSE active_opportunities
    /\ UNCHANGED arbCfg
    /\ UNCHANGED <<riskVars, execVars, copyVars, monVars, taskVars>>

NextArb ==
    \/ \E m \in Markets, f \in Fetches : Arb_ScanMarket(m, f)
    \/ \E ids \in Batches : Arb_ScanMarketsBegin(ids)
    \/ \E f \in Fetches : Arb_ScanMarketsItem(f)

SpecArb == InitArb /\ [][NextArb]_vars

(***************************************************************************)
(* The Copy Traders driven by the trades delivered to them, one action per *)
(* access of process_trade to a shared component.  bot.rs keeps each       *)
(* CopyTrader behind its own Mutex, so a trader runs one process_trade at  *)
(* a time; the traders of different wallets interleave.  The executor's    *)
(* write lock is held from the call of place_order or cancel_order to its  *)
(* return, the gateway's answer included, so each is one step.             *)
(***************************************************************************)
Trade(m, o, sd, p, usd, tx) ==
    [market_id |-> m, outcome |-> o, side |-> sd, price |-> p, size_usd |-> usd,
     tx_hash |-> tx]

\* The trades delivered: a large one, one below the minimum stake at multiplier 0.1,
\* one of a market with no opportunity and outside the allow-list, and two without hash
\* on one market, outcome and side, at different prices and sizes
CopyTrades ==
    { Trade("m1", "YES", "buy", 50, 500000, Some("0xa")),
      Trade("m1", "YES", "buy", 50, 5000, Some("0xb")),
      Trade("m2", "NO", "buy", 50, 500000, Some("0xc")),
      Trade("m1", "NO", "sell", 25, 60000, None),
      Trade("m1", "NO", "sell", 50, 8000, None) }

\* The order book the detector's scans fetch while the traders run
CopyFetches == { Some([YES |-> Some(<<Ask(40, 3000)>>), NO |-> Some(<<Ask(58, 3000)>>)]) }

\* What the gateway answers to a placement: failure, or a response without id
PlaceAnswers == { None, Some([id |-> None, orderId |-> None]) }

InitCopy ==
    /\ riskCfg = CHOOSE c \in RiskConfigs : c.max_total_exposure_usd = 100000
    /\ RiskNew
    /\ ArbQuiet
    /\ active_orders = << >>
    /\ ecall = NoExecCall
    /\ walletCfg \in [Wallets -> WalletConfigs]
    /\ copied_trades = [w \in Wallets |-> {}]
    /\ trader = [w \in Wallets |-> Idle]
    /\ log = [w \in Wallets |-> << >>]
    /\ MonQuiet
    /\ TaskQuiet

\* process_trade calls begun so far
Deliveries ==
    Len(log["w1"]) + Len(log["w2"]) + Cardinality({w \in Wallets : trader[w].pc # "idle"})

\* process_trade goes on to its next step
Continue(w, t) ==
    /\ trader' = [trader EXCEPT ![w] = t]
    /\ UNCHANGED log

\* process_trade returns ret; gate names the gate that dropped the trade
Finish(w, t, ret, gate) ==
    /\ log' = [log EXCEPT ![w] = Append(@, [t EXCEPT !.pc = "done", !.ret = ret,
                                                      !.gate = gate])]
    /\ trader' = [trader EXCEPT ![w] = Idle]

\* process_trade, the sizing gate
Sized(w, t) ==
    LET position_size_usd == calculate_position_size(walletCfg[w], Unwrap(t.trade))
    IN IF position_size_usd <= 0
       THEN Finish(w, [t EXCEPT !.size = position_size_usd], FALSE, "sizing")
       ELSE Continue(w, [t EXCEPT !.size = position_size_usd, !.pc = "risk"])

\* The mutant of PT_Begin: the key is looked up in the dedup sets of all traders.
PT_Begin_shared_history(w, tr) ==
    /\ trader[w].pc = "idle"
    /\ Deliveries < MaxDeliveries
    /\ LET everywhere == UNION {copied_trades[v] : v \in Wallets}
           gate == LocalGate(walletCfg[w], everywhere, tr)
           t == [Idle EXCEPT !.trade = Some(tr),
                             !.marked = (trade_key(tr) \in everywhere)]
       IN IF gate # "pass" THEN Finish(w, t, FALSE, gate)
          ELSE IF walletCfg[w].require_arb_signal
          THEN Continue(w, [t EXCEPT !.pc = "signal"])
          ELSE Sized(w, t)
    /\ UNCHANGED <<walletCfg, copied_trades>>
    /\ UNCHANGED <<riskVars, arbVars, execVars, monVars, taskVars>>

\* The mutant of PT_Begin: the signal gate is applied to every wallet.
PT_Begin_signal_for_all(w, tr) ==
    /\ trader[w].pc = "idle"
    /\ Deliveries < MaxDeliveries
    /\ LET gate == LocalGate(walletCfg[w], copied_trades[w], tr)
           t == [Idle EXCEPT !.trade = Some(tr),
                             !.marked = (trade_key(tr) \in copied_trades[w])]
       IN IF gate # "pass" THEN Finish(w, t, FALSE, gate)
          ELSE Continue(w, [t EXCEPT !.pc = "signal"])
    /\ UNCHANGED <<walletCfg, copied_trades>>
    /\ UNCHANGED <<riskVars, arbVars, execVars, monVars, taskVars>>

\* process_trade: entry, dedup, eligibility, allow-list
PT_Begin(w, tr) ==
    /\ trader[w].pc = "idle"
    /\ Deliveries < MaxDeliveries
    /\ LET gate == LocalGate(walletCfg[w], copied_trades[w], tr)
           t == [Idle EXCEPT !.trade = Some(tr),
                             !.marked = (trade_key(tr) \in copied_trades[w])]
       IN IF gate # "pass" THEN Finish(w, t, FALSE, gate)
          ELSE IF walletCfg[w].require_arb_signal
          THEN Continue(w, [t EXCEPT !.pc = "signal"])
          ELSE Sized(w, t)
    /\ UNCHANGED <<walletCfg, copied_trades>>
    /\ UNCHANGED <<riskVars, arbVars, execVars, monVars, taskVars>>

\* The mutant of PT_Signal: a trade dropped at the signal gate has its key marked.
PT_Signal_marking(w) ==
    /\ trader[w].pc = "signal"
    /\ LET t == [trader[w] EXCEPT !.signal_checked = TRUE]
       IN IF has_opportunity(arbCfg, active_opportunities, Unwrap(t.trade).market_id)
          THEN Sized(w, t) /\ UNCHANGED copied_trades
          ELSE /\ Finish(w, t, FALSE, "signal")
               /\ copied_trades' = [copied_trades EXCEPT
                                       ![w] = InsertCopied(@, trade_key(Unwrap(t.trade)))]
    /\ UNCHANGED walletCfg
    /\ UNCHANGED <<riskVars, arbVars, execVars, monVars, taskVars>>

\* process_trade: the signal gate, has_opportunity under the detector's read lock; the
\* get_opportunity read that follows it is only logged
PT_Signal(w) ==
    /\ trader[w].pc = "signal"
    /\ LET t == [trader[w] EXCEPT !.signal_checked = TRUE]
       IN IF has_opportunity(arbCfg, active_opportunities, Unwrap(t.trade).market_id)
          THEN Sized(w, t)
          ELSE Finish(w, t, FALSE, "signal")
    /\ UNCHANGED <<walletCfg, copied_trades>>
    /\ UNCHANGED <<riskVars, arbVars, execVars, monVars, taskVars>>

\* process_trade: the risk gate, can_open_position under the ledger's read lock
PT_Risk(w) ==
    /\ trader[w].pc = "risk"
    /\ LET t == [trader[w] EXCEPT !.risk_checked = TRUE]
       IN IF can_open_position(riskCfg, rm, Unwrap(t.trade).market_id, t.size)
          THEN IF walletCfg[w].require_arb_signal
               THEN Continue(w, [t EXCEPT !.pc = "opportunity"])
               ELSE Continue(w, [t EXCEPT !.pc = "place",
                                          !.branch = ExecutionBranch(walletCfg[w], None)])
          ELSE Finish(w, t, FALSE, "risk")
    /\ UNCHANGED <<walletCfg, copied_trades>>
    /\ UNCHANGED <<riskVars, arbVars, execVars, monVars, taskVars>>

\* execute_copy_trade: get_opportunity under the detector's read lock
PT_Opportunity(w) ==
    /\ trader[w].pc = "opportunity"
    /\ LET t == trader[w]
           arb_opp == get_opportunity(active_opportunities, Unwrap(t.trade).market_id)
           branch == ExecutionBranch(walletCfg[w], arb_opp)
       IN Continue(w, [t EXCEPT !.opp = arb_opp, !.branch = branch,
                                !.pc = IF branch = "arbitrage" THEN "yes" ELSE "place"])
    /\ UNCHANGED <<walletCfg, copied_trades>>
    /\ UNCHANGED <<riskVars, arbVars, execVars, monVars, taskVars>>

\* What a delivery remembers of one place_order call
Placement(market_id, outcome, side, price, usd, ret) ==
    [market_id |-> market_id, outcome |-> outcome, side |-> side, price |-> price,
     size |-> <<usd, price>>, ok |-> IsSome(ret)]

\* execute_copy_trade: the directional order
PT_Place(w, answer) ==
    /\ trader[w].pc = "place"
    /\ LET t == trader[w]
           trade == Unwrap(t.trade)
           shares == <<t.size, trade.price>>
           res == place_order(active_orders, trade.market_id, trade.outcome, trade.side,
                              trade.price, shares, answer)
           t1 == [t EXCEPT !.placements =
                      Append(@, Placement(trade.market_id, trade.outcome, trade.side,
                                          trade.price, t.size, res.ret))]
       IN /\ active_orders' = res.orders
          /\ IF IsSome(res.ret) THEN Continue(w, [t1 EXCEPT !.pc = "record"])
             ELSE Finish(w, t1, FALSE, "execution")
    /\ UNCHANGED <<walletCfg, copied_trades>>
    /\ UNCHANGED <<riskVars, arbVars, ecall, monVars, taskVars>>

\* What a delivery remembers of one record_position call
Recorded(market_id, size_usd, outcome, side, entry_price) ==
    [market_id |-> market_id, size_usd |-> size_usd, outcome |-> outcome, side |-> side,
     entry_price |-> entry_price]

\* execute_copy_trade: record_position under the ledger's write lock, then the key
\* is marked and process_trade returns true
PT_Record(w) ==
    /\ trader[w].pc = "record"
    /\ LET t == trader[w]
           trade == Unwrap(t.trade)
       IN /\ rm' = record_position(rm, trade.market_id, t.size, trade.outcome, trade.side,
                                   Some(trade.price))
          /\ copied_trades' = [copied_trades EXCEPT ![w] = InsertCopied(@, trade_key(trade))]
          /\ Finish(w, [t EXCEPT !.recorded =
                           Append(@, Recorded(trade.market_id, t.size, trade.outcome,
                                              trade.side, Some(trade.price)))],
                    TRUE, "none")
    /\ UNCHANGED <<riskCfg, today, writes, call, lastSnap>>
    /\ UNCHANGED <<walletCfg, arbVars, execVars, monVars, taskVars>>

\* The mutant of Half: each leg takes the whole sized amount.
Half_whole(usd) == usd

\* position_size_usd * 0.5; the amounts delivered are even numbers of cents
Half(usd) == usd \div 2

\* execute_arbitrage_trade: the YES order
PT_PlaceYes(w, answer) ==
    /\ trader[w].pc = "yes"
    /\ LET t == trader[w]
           arb_opp == Unwrap(t.opp)
           yes_size_usd == Half(t.size)
           yes_shares == <<yes_size_usd, arb_opp.yes_price>>
           res == place_order(active_orders, arb_opp.market_id, "YES", "buy",
                              arb_opp.yes_price, yes_shares, answer)
       IN /\ active_orders' = res.orders
          /\ Continue(w, [t EXCEPT !.yes_order = res.ret, !.pc = "no",
                            !.placements =
                                Append(@, Placement(arb_opp.market_id, "YES", "buy",
                                                    arb_opp.yes_price, yes_size_usd,
                                                    res.ret))])
    /\ UNCHANGED <<walletCfg, copied_trades>>
    /\ UNCHANGED <<riskVars, arbVars, ecall, monVars, taskVars>>

\* execute_arbitrage_trade: the NO order, then the branch on both results
PT_PlaceNo(w, answer) ==
    /\ trader[w].pc = "no"
    /\ LET t == trader[w]
           arb_opp == Unwrap(t.opp)
           no_size_usd == Half(t.size)
           no_shares == <<no_size_usd, arb_opp.no_price>>
           res == place_order(active_orders, arb_opp.market_id, "NO", "buy",
                              arb_opp.no_price, no_shares, answer)
           t1 == [t EXCEPT !.no_order = res.ret,
                           !.placements =
                               Append(@, Placement(arb_opp.market_id, "NO", "buy",
                                                   arb_opp.no_price, no_size_usd, res.ret))]
           ids == LegsToCancel(t1.yes_order, t1.no_order)
       IN /\ active_orders' = res.orders
          /\ IF BothLegsPlaced(t1.yes_order, t1.no_order)
             THEN Continue(w, [t1 EXCEPT !.pc = "record_both"])
             ELSE IF ids # << >>
             THEN Continue(w, [t1 EXCEPT !.pc = "cancel", !.to_cancel = ids])
             ELSE Finish(w, t1, FALSE, "execution")
    /\ UNCHANGED <<walletCfg, copied_trades>>
    /\ UNCHANGED <<riskVars, arbVars, ecall, monVars, taskVars>>

\* execute_arbitrage_trade: both record_position calls under one write lock, then
\* the key is marked and process_trade returns true
PT_RecordBoth(w) ==
    /\ trader[w].pc = "record_both"
    /\ LET t == trader[w]
           trade == Unwrap(t.trade)
           arb_opp == Unwrap(t.opp)
           yes_size_usd == Half(t.size)
           no_size_usd == Half(t.size)
           with_yes == record_position(rm, arb_opp.market_id, yes_size_usd, "YES", "buy",
                                       Some(arb_opp.yes_price))
       IN /\ rm' = record_position(with_yes, arb_opp.market_id, no_size_usd, "NO", "buy",
                                   Some(arb_opp.no_price))
          /\ copied_trades' = [copied_trades EXCEPT ![w] = InsertCopied(@, trade_key(trade))]
          /\ Finish(w, [t EXCEPT !.recorded =
                           @ \o <<Recorded(arb_opp.market_id, yes_size_usd, "YES", "buy",
                                           Some(arb_opp.yes_price)),
                                  Recorded(arb_opp.market_id, no_size_usd, "NO", "buy",
                                           Some(arb_opp.no_price))>>],
                    TRUE, "none")
    /\ UNCHANGED <<riskCfg, today, writes, call, lastSnap>>
    /\ UNCHANGED <<walletCfg, arbVars, execVars, monVars, taskVars>>

\* execute_arbitrage_trade: cancel_order for a leg that was placed; confirmed is the
\* gateway's answer
PT_Cancel(w, confirmed) ==
    /\ trader[w].pc = "cancel"
    /\ LET t == trader[w]
           order_id == Head(t.to_cancel)
           res == cancel_order(active_orders, order_id, confirmed)
           t1 == [t EXCEPT !.to_cancel = Tail(@),
                           !.cancels = Append(@, [order_id |-> order_id,
                                                  gateway_called |-> res.gateway_called,
                                                  ret |-> res.ret])]
       IN /\ active_orders' = res.orders
          /\ IF t1.to_cancel # << >> THEN Continue(w, t1)
             ELSE Finish(w, t1, FALSE, "execution")
    /\ UNCHANGED <<walletCfg, copied_trades>>
    /\ UNCHANGED <<riskVars, arbVars, ecall, monVars, taskVars>>

NextCopy ==
    \/ \E w \in Wallets, tr \in CopyTrades : PT_Begin(w, tr)
    \/ \E w \in Wallets : PT_Signal(w)
    \/ \E w \in Wallets : PT_Risk(w)
    \/ \E w \in Wallets : PT_Opportunity(w)
    \/ \E w \in Wallets, answer \in PlaceAnswers : PT_Place(w, answer)
    \/ \E w \in Wallets : PT_Record(w)
    \/ \E w \in Wallets, answer \in PlaceAnswers : PT_PlaceYes(w, answer)
    \/ \E w \in Wallets, answer \in PlaceAnswers : PT_PlaceNo(w, answer)
    \/ \E w \in Wallets : PT_RecordBoth(w)
    \/ \E w \in Wallets, confirmed \in BOOLEAN : PT_Cancel(w, confirmed)
    \/ Arb_ScanMarketsBegin(<<"m1">>)
    \/ \E f \in CopyFetches : Arb_ScanMarketsItem(f)

SpecCopy == InitCopy /\ [][NextCopy]_vars

(***************************************************************************)
(* The Copy Traders fed by the Wallet Monitor alone: check_wallet awaits   *)
(* callback(trade) before it turns to its next record, so a process_trade  *)
(* call begins only when no other is running.                              *)
(***************************************************************************)
\* process_trade: entry, when the callback of the previous trade has returned
Seq_Begin(w, tr) ==
    /\ \A v \in Wallets : trader[v].pc = "idle"
    /\ PT_Begin(w, tr)

NextCopySeq ==
    \/ \E w \in Wallets, tr \in CopyTrades : Seq_Begin(w, tr)
    \/ \E w \in Wallets : PT_Signal(w)
    \/ \E w \in Wallets : PT_Risk(w)
    \/ \E w \in Wallets : PT_Opportunity(w)
    \/ \E w \in Wallets, answer \in PlaceAnswers : PT_Place(w, answer)
    \/ \E w \in Wallets : PT_Record(w)
    \/ \E w \in Wallets, answer \in PlaceAnswers : PT_PlaceYes(w, answer)
    \/ \E w \in Wallets, answer \in PlaceAnswers : PT_PlaceNo(w, answer)
    \/ \E w \in Wallets : PT_RecordBoth(w)
    \/ \E w \in Wallets, confirmed \in BOOLEAN : PT_Cancel(w, confirmed)
    \/ Arb_ScanMarketsBegin(<<"m1">>)
    \/ \E f \in CopyFetches : Arb_ScanMarketsItem(f)

SpecCopySeq == InitCopy /\ [][NextCopySeq]_vars

(***************************************************************************)
(* The Order Executor driven on its own: place_order and cancel_order      *)
(* called with the answers the gateway can give.                           *)
(***************************************************************************)
\* JSON values of a gateway response
JStr(x) == <<"str", x>>
JNum(n) == <<"num", n>>

\* What the gateway answers to a placement: failure, or a response with its id under
\* "id", under "orderId", under both, as a number, or not at all
ExecAnswers ==
    { None,
      Some([id |-> None, orderId |-> None]),
      Some([id |-> Some(JStr("A")), orderId |-> None]),
      Some([id |-> None, orderId |-> Some(JStr("B"))]),
      Some([id |-> Some(JStr("A")), orderId |-> Some(JStr("B"))]),
      Some([id |-> Some(JNum(7)), orderId |-> Some(JStr("B"))]) }

\* The arguments of the place_order calls
ExecOrders ==
    { [market_id |-> "m1", outcome |-> "YES", side |-> "buy", price |-> 40,
       size |-> <<25000, 40>>],
      [market_id |-> "m2", outcome |-> "NO", side |-> "sell", price |-> 55,
       size |-> <<11000, 55>>] }

\* The order ids cancel_order is called with, in the table or not
ExecIds == { <<"id", "A">>, <<"id", "B">>, <<"uuid", 1>>, <<"uuid", 2>> }

InitExec ==
    /\ active_orders = << >>
    /\ ecall = NoExecCall
    /\ riskCfg = CHOOSE c \in RiskConfigs : c.max_total_exposure_usd = 100000
    /\ RiskNew
    /\ ArbQuiet
    /\ walletCfg = [w \in Wallets |->
                      CHOOSE c \in WalletConfigs : c.enabled /\ c.require_arb_signal]
    /\ copied_trades = [w \in Wallets |-> {}]
    /\ trader = [w \in Wallets |-> Idle]
    /\ log = [w \in Wallets |-> << >>]
    /\ MonQuiet
    /\ TaskQuiet

\* place_order, the gateway's answer included
Exec_Place(a, answer) ==
    /\ ecall.n < MaxExecCalls
    /\ LET res == place_order(active_orders, a.market_id, a.outcome, a.side, a.price,
                              a.size, answer)
       IN /\ active_orders' = res.orders
          /\ ecall' = [op |-> "place_order", n |-> ecall.n + 1, args |-> a,
                       answer |-> answer, before |-> active_orders, ret |-> res.ret]
    /\ UNCHANGED <<riskVars, arbVars, copyVars, monVars, taskVars>>

\* cancel_order, the gateway's answer included
Exec_Cancel(order_id, confirmed) ==
    /\ ecall.n < MaxExecCalls
    /\ LET res == cancel_order(active_orders, order_id, confirmed)
       IN /\ active_orders' = res.orders
          /\ ecall' = [op |-> "cancel_order", n |-> ecall.n + 1, order_id |-> order_id,
                       confirmed |-> confirmed, before |-> active_orders,
                       ret |-> res.ret, gateway_called |-> res.gateway_called]
    /\ UNCHANGED <<riskVars, arbVars, copyVars, monVars, taskVars>>

NextExec ==
    \/ \E a \in ExecOrders, answer \in ExecAnswers : Exec_Place(a, answer)
    \/ \E order_id \in ExecIds, confirmed \in BOOLEAN : Exec_Cancel(order_id, confirmed)

SpecExec == InitExec /\ [][NextExec]_vars

(***************************************************************************)
(* Wallet Monitor, src/src/wallet_monitor.rs                               *)
(*                                                                         *)
(* A raw trade record is a JSON object: each field is None (absent) or     *)
(* Some of a JSON value.  An instant is an integer of half seconds.  A     *)
(* timestamp string is <<"t", n>> when it parses as RFC 3339 to instant n  *)
(* and <<"text", s>> when it does not parse.                               *)
(***************************************************************************)
\* serde_json::Value::as_f64
AsF64(v) == IF v[1] = "num" THEN Some(v[2]) ELSE None

\* trade_data.get(k).and_then(|v| v.as_str())
GetStr(field) == IF IsSome(field) THEN AsStr(Unwrap(field)) ELSE None

\* trade_data.get(k).and_then(|v| v.as_f64())
GetF64(field) == IF IsSome(field) THEN AsF64(Unwrap(field)) ELSE None

\* Option::unwrap_or
UnwrapOr(o, d) == IF IsSome(o) THEN Unwrap(o) ELSE d

\* str::to_uppercase, on the outcome strings the records carry
ToUppercase(str) ==
    CASE str = "yes" -> "YES"
      [] str = "no" -> "NO"
      [] str = "maybe" -> "MAYBE"
      [] str = "buy" -> "BUY"
      [] str = "sell" -> "SELL"
      [] str = "Hold" -> "HOLD"
      [] OTHER -> str

\* str::to_lowercase, on the side strings the records carry
ToLowercase(str) ==
    CASE str = "BUY" -> "buy"
      [] str = "SELL" -> "sell"
      [] str = "Hold" -> "hold"
      [] str = "YES" -> "yes"
      [] str = "NO" -> "no"
      [] OTHER -> str

\* DateTime::parse_from_rfc3339(s).ok()
ParseRfc3339(str) == IF str[1] = "t" THEN Some(str[2]) ELSE None

\* The mutant of parse_trade: the closed sets and the price are not checked.
parse_trade_unvalidated(trade_data, wallet_address, now) ==
    LET market_id == GetStr(trade_data.marketId)
        timestamp == GetStr(trade_data.timestamp)
    IN IF ~IsSome(market_id) THEN None
       ELSE Some([wallet_address |-> wallet_address,
                  market_id |-> Unwrap(market_id),
                  outcome |-> ToUppercase(UnwrapOr(GetStr(trade_data.outcome), "YES")),
                  side |-> ToLowercase(UnwrapOr(GetStr(trade_data.side), "buy")),
                  price |-> UnwrapOr(GetF64(trade_data.price), 0),
                  size |-> UnwrapOr(GetF64(trade_data.size), 0),
                  size_usd |-> UnwrapOr(GetF64(trade_data.size), 0)
                                  * UnwrapOr(GetF64(trade_data.price), 0),
                  timestamp |-> UnwrapOr(IF IsSome(timestamp)
                                         THEN ParseRfc3339(Unwrap(timestamp))
                                         ELSE None, now),
                  tx_hash |-> GetStr(trade_data.txHash)])

\* WalletMonitor::parse_trade; now is what Utc::now() reads
parse_trade(trade_data, wallet_address, now) ==
    LET market_id == GetStr(trade_data.marketId)
    IN IF ~IsSome(market_id) THEN None
       ELSE LET outcome == ToUppercase(UnwrapOr(GetStr(trade_data.outcome), "YES"))
                side == ToLowercase(UnwrapOr(GetStr(trade_data.side), "buy"))
                price == UnwrapOr(GetF64(trade_data.price), 0)
                size == UnwrapOr(GetF64(trade_data.size), 0)
                size_usd == size * price
                timestamp_str == GetStr(trade_data.timestamp)
                parsed == IF IsSome(timestamp_str) THEN ParseRfc3339(Unwrap(timestamp_str))
                          ELSE None
                timestamp == UnwrapOr(parsed, now)
                tx_hash == GetStr(trade_data.txHash)
            IN IF outcome \notin {"YES", "NO"} \/ side \notin {"buy", "sell"} \/ price <= 0
               THEN None
               ELSE Some([wallet_address |-> wallet_address, market_id |-> Unwrap(market_id),
                          outcome |-> outcome, side |-> side, price |-> price,
                          size |-> size, size_usd |-> size_usd, timestamp |-> timestamp,
                          tx_hash |-> tx_hash])

\* chrono::Duration::num_seconds of a difference of instants: whole seconds, rounded
\* toward zero
NumSeconds(d) == IF d >= 0 THEN d \div 2 ELSE -((-d) \div 2)

\* i64::abs
Abs(n) == IF n >= 0 THEN n ELSE -n

\* The window of the novelty test, in seconds
NoveltyWindow == 5

\* One turn of the loop of is_new_trade: the history entry makes the trade a duplicate
MatchesExisting(existing_trade, trade) ==
    \/ /\ IsSome(trade.tx_hash) /\ IsSome(existing_trade.tx_hash)
       /\ Unwrap(trade.tx_hash) = Unwrap(existing_trade.tx_hash)
    \/ /\ existing_trade.market_id = trade.market_id
       /\ existing_trade.outcome = trade.outcome
       /\ existing_trade.side = trade.side
       /\ Abs(NumSeconds(existing_trade.timestamp - trade.timestamp)) < NoveltyWindow

\* The mutant of is_new_trade: an entry exactly at the window's edge is a match too.
is_new_trade_inclusive(wallet_trades, trade) ==
    ~\E i \in 1..Len(wallet_trades) :
        \/ MatchesExisting(wallet_trades[i], trade)
        \/ /\ wallet_trades[i].market_id = trade.market_id
           /\ wallet_trades[i].outcome = trade.outcome
           /\ wallet_trades[i].side = trade.side
           /\ Abs(NumSeconds(wallet_trades[i].timestamp - trade.timestamp)) = NoveltyWindow

\* WalletMonitor::is_new_trade, on the wallet's history
is_new_trade(wallet_trades, trade) ==
    ~\E i \in 1..Len(wallet_trades) : MatchesExisting(wallet_trades[i], trade)

\* WalletMonitor.last_known_positions: constructed empty, and no code writes it
last_known_positions == << >>

\* The mutant of check_record: a duplicate is forwarded all the same.
check_record_forward_all(history, trade_data, wallet_address, callback, now) ==
    LET parsed == parse_trade(trade_data, wallet_address, now)
    IN IF ~IsSome(parsed)
       THEN [verdict |-> "dropped", trade |-> None, history |-> history, forward |-> None]
       ELSE IF is_new_trade(history, Unwrap(parsed))
       THEN [verdict |-> "new", trade |-> parsed, history |-> Append(history, Unwrap(parsed)),
             forward |-> IF callback THEN parsed ELSE None]
       ELSE [verdict |-> "duplicate", trade |-> parsed, history |-> history,
             forward |-> IF callback THEN parsed ELSE None]

\* check_wallet, the body of its loop for one raw record: the verdict, the trade parsed,
\* the wallet's history after it and the trade to hand to the callback
check_record(history, trade_data, wallet_address, callback, now) ==
    LET parsed == parse_trade(trade_data, wallet_address, now)
        position_id == GetStr(trade_data.positionId)
        known_positions == IF wallet_address \in DOMAIN last_known_positions
                           THEN last_known_positions[wallet_address] ELSE {}
    IN IF ~IsSome(parsed)
       THEN [verdict |-> "dropped", trade |-> None, history |-> history, forward |-> None]
       ELSE IF IsSome(position_id) /\ Unwrap(position_id) \in known_positions
       THEN [verdict |-> "known_position", trade |-> parsed, history |-> history,
             forward |-> None]
       ELSE IF is_new_trade(history, Unwrap(parsed))
       THEN [verdict |-> "new", trade |-> parsed, history |-> Append(history, Unwrap(parsed)),
             forward |-> IF callback THEN parsed ELSE None]
       ELSE [verdict |-> "duplicate", trade |-> parsed, history |-> history,
             forward |-> None]

(***************************************************************************)
(* The monitor driven by what the data source returns: check_wallet, one   *)
(* action per raw record of the batch and one for the callback it awaits.  *)
(* A fetch that returns no record changes nothing and is left out.         *)
(***************************************************************************)
Raw(marketId, outcome, side, price, size, timestamp, txHash, positionId) ==
    [marketId |-> marketId, outcome |-> outcome, side |-> side, price |-> price,
     size |-> size, timestamp |-> timestamp, txHash |-> txHash, positionId |-> positionId]

\* An RFC 3339 string of instant n
Instant(n) == Some(JStr(<<"t", n>>))

\* transform_api_trades, on one record of the activity endpoint.  Each field of the
\* record stands for the first present of the names the client accepts for it
\* (price or pricePerShare, txHash or transactionHash or hash, ...); a field absent
\* from the record is null in the result, which as_str and as_f64 treat as absent.
transform_api_trade(trade) ==
    Raw(trade.marketId,
        IF IsSome(trade.outcome) THEN trade.outcome
        ELSE IF IsSome(trade.side)
             THEN Some(JStr(ToUppercase(UnwrapOr(AsStr(Unwrap(trade.side)), "YES"))))
             ELSE None,
        Some(JStr(IF IsSome(trade.side)
                  THEN ToLowercase(UnwrapOr(AsStr(Unwrap(trade.side)), "buy"))
                  ELSE "buy")),
        trade.price, trade.size, trade.timestamp, trade.txHash, None)

\* transform_positions_to_trades, on one record of the positions endpoint: the side is
\* always buy and the position's id is kept
transform_position_to_trade(position) ==
    Raw(position.marketId,
        IF IsSome(position.outcome) THEN position.outcome
        ELSE IF IsSome(position.side)
             THEN Some(JStr(ToUppercase(UnwrapOr(AsStr(Unwrap(position.side)), "YES"))))
             ELSE None,
        Some(JStr("buy")),
        position.price, position.size, position.timestamp, position.txHash,
        position.positionId)

\* The records of the activity endpoint: a trade written in the other case; one 5.0 s
\* later in the same market, outcome and side, without hash; one of another market
\* reusing the first hash; one 5.5 s after the first that names neither outcome nor
\* side; one without market id; one with an outcome outside the closed set; one with a
\* side outside the closed set, a string price and an unparsable timestamp; one without
\* timestamp and hash
ApiTrades ==
    { Raw(Some(JStr("m1")), Some(JStr("yes")), Some(JStr("BUY")), Some(JNum(50)),
          Some(JNum(100)), Instant(0), Some(JStr("0xa")), None),
      Raw(Some(JStr("m1")), Some(JStr("YES")), Some(JStr("buy")), Some(JNum(50)),
          Some(JNum(100)), Instant(10), None, None),
      Raw(Some(JStr("m2")), Some(JStr("NO")), Some(JStr("sell")), Some(JNum(25)),
          Some(JNum(40)), Instant(30), Some(JStr("0xa")), None),
      Raw(Some(JStr("m1")), None, None, Some(JNum(50)),
          Some(JNum(100)), Instant(11), None, None),
      Raw(None, Some(JStr("YES")), Some(JStr("buy")), Some(JNum(50)),
          Some(JNum(100)), Instant(20), Some(JStr("0xc")), None),
      Raw(Some(JStr("m2")), Some(JStr("maybe")), Some(JStr("buy")), Some(JNum(50)),
          Some(JNum(100)), Instant(20), Some(JStr("0xd")), None),
      Raw(Some(JStr("m2")), Some(JStr("NO")), Some(JStr("Hold")), Some(JStr("0.5")),
          Some(JNum(100)), Some(JStr(<<"text", "soon">>)), None, None),
      Raw(Some(JStr("m2")), Some(JStr("NO")), Some(JStr("buy")), Some(JNum(25)),
          Some(JNum(40)), None, None, None) }

\* The records of the positions endpoint: the first trade's position seen 4.5 s later
\* under another hash, and a position that names its outcome in the side field
Positions ==
    { Raw(Some(JStr("m1")), Some(JStr("YES")), None, Some(JNum(50)),
          Some(JNum(100)), Instant(9), Some(JStr("0xb")), Some(JStr("p1"))),
      Raw(Some(JStr("m2")), None, Some(JStr("no")), Some(JNum(25)),
          Some(JNum(40)), Instant(30), None, Some(JStr("p2"))) }

\* What get_wallet_trades returns: the positions of the wallet, transformed, when it has
\* any, else its activity, transformed; the batches of one record or more
RawBatches ==
    UNION { [1..n -> {transform_position_to_trade(p) : p \in Positions}]
                \cup [1..n -> {transform_api_trade(t) : t \in ApiTrades}] : n \in 1..MaxPoll }

\* What Utc::now() reads while the monitor runs: two instants 5 s apart
Nows == {40, 50}

\* parse_trade reads the clock for this record: it has a market id and no timestamp
\* string that parses
ReadsClock(trade_data) ==
    /\ IsSome(GetStr(trade_data.marketId))
    /\ IF IsSome(GetStr(trade_data.timestamp))
       THEN ~IsSome(ParseRfc3339(Unwrap(GetStr(trade_data.timestamp))))
       ELSE TRUE

InitMon ==
    /\ riskCfg = CHOOSE c \in RiskConfigs : c.max_total_exposure_usd = 100000
    /\ RiskNew
    /\ ArbQuiet
    /\ CopyQuiet
    /\ trade_history = [w \in Wallets |-> << >>]
    /\ mon \in {[NoPoll EXCEPT !.callback = b] : b \in BOOLEAN}
    /\ forwarded = [w \in Wallets |-> << >>]
    /\ TaskQuiet

\* The loop of check_wallet moves to its next record, or ends
Advance(m) ==
    [m EXCEPT !.pos = @ + 1,
              !.pc = IF m.pos + 1 > Len(m.batch) THEN "idle" ELSE "loop"]

\* check_wallet: entry, with the batch get_wallet_trades returned
Mon_CheckWallet(w, batch) ==
    /\ mon.pc = "idle"
    /\ walletCfg[w].enabled
    /\ mon.fetched + Len(batch) <= MaxFetched
    /\ mon' = [mon EXCEPT !.pc = "loop", !.wallet = w, !.batch = batch, !.pos = 1,
                          !.fetched = @ + Len(batch), !.step = None, !.pending = None,
                          !.forwarded_at_poll = Len(forwarded[w])]
    /\ UNCHANGED <<trade_history, forwarded>>
    /\ UNCHANGED <<riskVars, arbVars, execVars, copyVars, taskVars>>

\* check_wallet: one turn of the loop, up to the call of the callback
Mon_Record(now) ==
    /\ mon.pc = "loop"
    /\ now >= mon.clock
    /\ LET w == mon.wallet
           res == check_record(trade_history[w], mon.batch[mon.pos], w, mon.callback, now)
           m == [mon EXCEPT !.step = Some([trade_data |-> mon.batch[mon.pos],
                                           verdict |-> res.verdict,
                                           trade |-> res.trade,
                                           history_before |-> trade_history[w],
                                           forwarded_before |-> forwarded[w]]),
                            !.pending = res.forward,
                            !.clock = IF ReadsClock(mon.batch[mon.pos]) THEN now ELSE @]
       IN /\ trade_history' = [trade_history EXCEPT ![w] = res.history]
          /\ mon' = IF IsSome(res.forward) THEN [m EXCEPT !.pc = "callback"]
                    ELSE Advance(m)
    /\ UNCHANGED forwarded
    /\ UNCHANGED <<riskVars, arbVars, execVars, copyVars, taskVars>>

\* check_wallet: callback(trade).await
Mon_Callback ==
    /\ mon.pc = "callback"
    /\ forwarded' = [forwarded EXCEPT ![mon.wallet] = Append(@, Unwrap(mon.pending))]
    /\ mon' = Advance([mon EXCEPT !.pending = None])
    /\ UNCHANGED trade_history
    /\ UNCHANGED <<riskVars, arbVars, execVars, copyVars, taskVars>>

NextMon ==
    \/ \E w \in Wallets, batch \in RawBatches : Mon_CheckWallet(w, batch)
    \/ \E now \in Nows : Mon_Record(now)
    \/ Mon_Callback

SpecMon == InitMon /\ [][NextMon]_vars

(***************************************************************************)
(* The polling loop of start_monitoring and the tasks stop_monitoring      *)
(* spawns.  A cycle is check_all_wallets, one check_wallet call per        *)
(* address (the calls SpecMon follows record by record), then the sleep.   *)
(***************************************************************************)
\* The mutant of LoopContinues: the flag is not consulted.
LoopContinues_always(l) == TRUE

\* while *self.running.read().await
LoopContinues(l) == l.running

InitLoop ==
    /\ riskCfg = CHOOSE c \in RiskConfigs : c.max_total_exposure_usd = 100000
    /\ RiskNew
    /\ ArbQuiet
    /\ CopyQuiet
    /\ MonQuiet
    /\ loop = NoLoop
    /\ lk = NoLocks

\* start_monitoring is called: the future exists and runs when it is polled
Loop_Invoke ==
    /\ loop.pc = "new"
    /\ loop' = [loop EXCEPT !.pc = "invoked"]
    /\ UNCHANGED lk
    /\ UNCHANGED <<riskVars, arbVars, execVars, copyVars, monVars>>

\* start_monitoring: *self.running.write().await = true
Loop_Start ==
    /\ loop.pc = "invoked"
    /\ loop' = [loop EXCEPT !.pc = "while", !.running = TRUE]
    /\ UNCHANGED lk
    /\ UNCHANGED <<riskVars, arbVars, execVars, copyVars, monVars>>

\* start_monitoring: the loop condition, read at the cycle boundary; a cycle begins or
\* the loop ends.  cycles counts the cycles begun, up to MaxCycles; the loop itself has
\* no bound.
Loop_While ==
    /\ loop.pc = "while"
    /\ IF LoopContinues(loop)
       THEN loop' = [loop EXCEPT !.pc = "cycle", !.idx = 1,
                                 !.cycles = IF @ < MaxCycles THEN @ + 1 ELSE @]
       ELSE loop' = [loop EXCEPT !.pc = "done"]
    /\ UNCHANGED lk
    /\ UNCHANGED <<riskVars, arbVars, execVars, copyVars, monVars>>

\* check_all_wallets: self.check_wallet(&address).await for the next address
Loop_CheckWallet ==
    /\ loop.pc = "cycle"
    /\ loop' = IF loop.idx < Cardinality(Wallets) THEN [loop EXCEPT !.idx = @ + 1]
               ELSE [loop EXCEPT !.pc = "sleep"]
    /\ UNCHANGED lk
    /\ UNCHANGED <<riskVars, arbVars, execVars, copyVars, monVars>>

\* tokio::time::sleep(check_interval).await returns
Loop_Sleep ==
    /\ loop.pc = "sleep"
    /\ loop' = [loop EXCEPT !.pc = "while"]
    /\ UNCHANGED lk
    /\ UNCHANGED <<riskVars, arbVars, execVars, copyVars, monVars>>

\* stop_monitoring: tokio::spawn of the task that will clear the flag
Stop_Call ==
    /\ loop.stop_calls < MaxStops
    /\ loop' = [loop EXCEPT !.stop_calls = @ + 1, !.spawned = @ + 1,
                            !.stop_after_start = @ \/ loop.pc # "new"]
    /\ UNCHANGED lk
    /\ UNCHANGED <<riskVars, arbVars, execVars, copyVars, monVars>>

\* The spawned task runs: *running.write().await = false
Stop_Task ==
    /\ loop.spawned > 0
    /\ loop' = [loop EXCEPT
                  !.spawned = @ - 1,
                  !.running = FALSE,
                  !.cleared = IF loop.pc \in {"while", "cycle", "sleep"} /\ ~IsSome(@)
                              THEN Some([pc |-> loop.pc, cycles |-> loop.cycles])
                              ELSE @]
    /\ UNCHANGED lk
    /\ UNCHANGED <<riskVars, arbVars, execVars, copyVars, monVars>>

NextLoop ==
    \/ Loop_Invoke
    \/ Loop_Start
    \/ Loop_While
    \/ Loop_CheckWallet
    \/ Loop_Sleep
    \/ Stop_Call
    \/ Stop_Task

SpecLoop == InitLoop /\ [][NextLoop]_vars

\* The runtime polls the future of start_monitoring and every spawned task; a
\* check_wallet call and the sleep return
SpecLoopFair ==
    /\ SpecLoop
    /\ WF_vars(Loop_Start)
    /\ WF_vars(Loop_While)
    /\ WF_vars(Loop_CheckWallet)
    /\ WF_vars(Loop_Sleep)
    /\ WF_vars(Stop_Task)

(***************************************************************************)
(* The lock sections of process_trade, execute_copy_trade and              *)
(* execute_arbitrage_trade, one task per wallet (handle_wallet_trade holds *)
(* the trader's Mutex for the whole call).  A section requests a lock,     *)
(* waits in the lock's queue, holds the guard over its body and drops it   *)
(* where the guard's block ends.  tokio's RwLock serves its waiters in     *)
(* arrival order: a write waits for every guard, a read for a write guard. *)
(***************************************************************************)
\* The lock, the mode and whether the body awaits a gateway call, by section
Section(pc) ==
    CASE pc = "has_opportunity" ->
             [lock |-> "detector", mode |-> "read", net |-> FALSE]
      [] pc = "get_opportunity" ->
             [lock |-> "detector", mode |-> "read", net |-> FALSE]
      [] pc = "can_open_position" ->
             [lock |-> "risk", mode |-> "read", net |-> FALSE]
      [] pc = "execute_get_opportunity" ->
             [lock |-> "detector", mode |-> "read", net |-> FALSE]
      [] pc \in {"place_order", "place_yes", "place_no"} ->
             [lock |-> "executor", mode |-> "write", net |-> TRUE]
      [] pc \in {"record_position", "record_positions"} ->
             [lock |-> "risk", mode |-> "write", net |-> FALSE]
      [] pc = "cancel_order" ->
             [lock |-> "executor", mode |-> "write", net |-> TRUE]

Sections ==
    {"has_opportunity", "get_opportunity", "can_open_position", "execute_get_opportunity",
     "place_order", "place_yes", "place_no", "record_position", "record_positions",
     "cancel_order"}

\* Where the call goes after a section (or from its entry), by what the section found;
\* "ret" is the return of process_trade
Succ(pc, cfg) ==
    CASE pc = "idle" ->
             IF ~cfg.enabled THEN {"ret"}
             ELSE {"ret", IF cfg.require_arb_signal THEN "has_opportunity"
                          ELSE "can_open_position"}
      [] pc = "has_opportunity" -> {"ret", "get_opportunity"}
      [] pc = "get_opportunity" -> {"ret", "can_open_position"}
      [] pc = "can_open_position" ->
             {"ret", IF cfg.require_arb_signal THEN "execute_get_opportunity"
                     ELSE "place_order"}
      [] pc = "execute_get_opportunity" -> {"place_order", "place_yes"}
      [] pc = "place_order" -> {"record_position", "ret"}
      [] pc = "place_yes" -> {"place_no"}
      [] pc = "place_no" -> {"record_positions", "cancel_order", "ret"}
      [] pc \in {"record_position", "record_positions", "cancel_order"} -> {"ret"}

\* The mutant of Dropped: the guard outlives its block.
Dropped_kept(held, w, l) == held

\* The guard of w on l is dropped at the end of the block that took it
Dropped(held, w, l) == [held EXCEPT ![l] = {g \in @ : g[1] # w}]

\* The locks w holds a guard of
Holds(w) == {l \in Locks : \E g \in lk.held[l] : g[1] = w}

\* A request can be served: a write needs the lock free, a read needs no write guard
Compatible(l, mode) ==
    IF mode = "write" THEN lk.held[l] = {}
    ELSE \A g \in lk.held[l] : g[2] = "read"

InitLock ==
    /\ riskCfg = CHOOSE c \in RiskConfigs : c.max_total_exposure_usd = 100000
    /\ RiskNew
    /\ ArbQuiet
    /\ active_orders = << >>
    /\ ecall = NoExecCall
    /\ walletCfg \in [Wallets -> WalletConfigs]
    /\ copied_trades = [w \in Wallets |-> {}]
    /\ trader = [w \in Wallets |-> Idle]
    /\ log = [w \in Wallets |-> << >>]
    /\ MonQuiet
    /\ TaskQuiet

\* handle_wallet_trade: trader.process_trade(trade).await begins and runs to its first
\* lock section, or returns before any
LK_Begin(w, next) ==
    /\ lk.task[w].pc = "idle"
    /\ lk.task[w].runs < MaxRuns
    /\ next \in Succ("idle", walletCfg[w])
    /\ lk' = [lk EXCEPT !.task[w].pc = next]
    /\ UNCHANGED loop
    /\ UNCHANGED <<riskVars, arbVars, execVars, copyVars, monVars>>

\* lock.read().await / lock.write().await: the task joins the lock's queue
LK_Request(w) ==
    /\ lk.task[w].pc \in Sections
    /\ lk.task[w].phase = "enter"
    /\ LET sec == Section(lk.task[w].pc)
       IN lk' = [lk EXCEPT !.queue[sec.lock] = Append(@, <<w, sec.mode>>),
                           !.task[w].phase = "waiting"]
    /\ UNCHANGED loop
    /\ UNCHANGED <<riskVars, arbVars, execVars, copyVars, monVars>>

\* The first waiter is given its guard
LK_Grant(w) ==
    /\ lk.task[w].pc \in Sections
    /\ lk.task[w].phase = "waiting"
    /\ LET sec == Section(lk.task[w].pc)
       IN /\ lk.queue[sec.lock] # << >>
          /\ Head(lk.queue[sec.lock]) = <<w, sec.mode>>
          /\ Compatible(sec.lock, sec.mode)
          /\ lk' = [lk EXCEPT !.queue[sec.lock] = Tail(@),
                              !.held[sec.lock] = @ \cup {<<w, sec.mode>>},
                              !.task[w].phase = "held"]
    /\ UNCHANGED loop
    /\ UNCHANGED <<riskVars, arbVars, execVars, copyVars, monVars>>

\* executor.place_order(..).await / executor.cancel_order(..).await: the task is
\* suspended in the gateway call, the guard alive
LK_Call(w) ==
    /\ lk.task[w].pc \in Sections
    /\ lk.task[w].phase = "held"
    /\ Section(lk.task[w].pc).net
    /\ lk' = [lk EXCEPT !.task[w].phase = "net"]
    /\ UNCHANGED loop
    /\ UNCHANGED <<riskVars, arbVars, execVars, copyVars, monVars>>

\* The gateway call returns
LK_NetReturn(w) ==
    /\ lk.task[w].phase = "net"
    /\ lk' = [lk EXCEPT !.task[w].phase = "back"]
    /\ UNCHANGED loop
    /\ UNCHANGED <<riskVars, arbVars, execVars, copyVars, monVars>>

\* The block ends: the guard is dropped and the call goes on
LK_Release(w, next) ==
    /\ lk.task[w].pc \in Sections
    /\ \/ lk.task[w].phase = "held" /\ ~Section(lk.task[w].pc).net
       \/ lk.task[w].phase = "back"
    /\ next \in Succ(lk.task[w].pc, walletCfg[w])
    /\ lk' = [lk EXCEPT !.held = Dropped(@, w, Section(lk.task[w].pc).lock),
                        !.task[w].pc = next,
                        !.task[w].phase = "enter"]
    /\ UNCHANGED loop
    /\ UNCHANGED <<riskVars, arbVars, execVars, copyVars, monVars>>

\* process_trade returns
LK_Return(w) ==
    /\ lk.task[w].pc = "ret"
    /\ lk' = [lk EXCEPT !.task[w].pc = "idle", !.task[w].runs = @ + 1]
    /\ UNCHANGED loop
    /\ UNCHANGED <<riskVars, arbVars, execVars, copyVars, monVars>>

NextLock ==
    \/ \E w \in Wallets, next \in Sections \cup {"ret"} : LK_Begin(w, next)
    \/ \E w \in Wallets : LK_Request(w)
    \/ \E w \in Wallets : LK_Grant(w)
    \/ \E w \in Wallets : LK_Call(w)
    \/ \E w \in Wallets : LK_NetReturn(w)
    \/ \E w \in Wallets, next \in Sections \cup {"ret"} : LK_Release(w, next)
    \/ \E w \in Wallets : LK_Return(w)

SpecLock == InitLock /\ [][NextLock]_vars

\* Every task is scheduled, every gateway call returns, and a lock that can serve its
\* first waiter does
SpecLockFair ==
    /\ SpecLock
    /\ \A w \in Wallets :
          /\ WF_vars(LK_Request(w))
          /\ WF_vars(LK_Grant(w))
          /\ WF_vars(LK_Call(w))
          /\ WF_vars(LK_NetReturn(w))
          /\ WF_vars(\E next \in Sections \cup {"ret"} : LK_Release(w, next))
          /\ WF_vars(LK_Return(w))

(***************************************************************************)
(* Properties of the Risk Ledger, checked under SpecRisk.                  *)
(***************************************************************************)
\* The summed size of the open positions of a market, counted position by position
RECURSIVE OpenSizeUpTo(_, _)
OpenSizeUpTo(ps, n) == IF n = 0 THEN 0 ELSE OpenSizeUpTo(ps, n - 1) + ps[n].size_usd
OpenSizeOfMarket(r, m) ==
    IF m \in DOMAIN r.positions THEN OpenSizeUpTo(r.positions[m], Len(r.positions[m])) ELSE 0

\* C1: can_open_position(market, size) returns true exactly when the daily PnL is
\* strictly above -max_daily_loss, total exposure + size <= max_total_exposure and
\* the summed size of the market's open positions + size <= max_position_per_market.
C1_CanOpenExactlyWhenAllThreeCapsPass ==
    call.op = "can_open_position" =>
        (call.ret <=>
            /\ rm.daily_pnl > -riskCfg.max_daily_loss_usd
            /\ rm.total_exposure + call.args.size_usd <= riskCfg.max_total_exposure_usd
            /\ OpenSizeOfMarket(rm, call.args.market_id) + call.args.size_usd
                   <= riskCfg.max_position_per_market_usd)

\* C1 witness: with a cap of 1000 USD and 900 USD of exposure, a request for 150 USD
\* has been denied.
C1_Witness ==
    /\ call.op = "can_open_position"
    /\ riskCfg.max_total_exposure_usd = 100000
    /\ rm.total_exposure = 90000
    /\ call.args.size_usd = 15000
    /\ call.ret = FALSE

\* The just-recorded position and the close that follows it agree on market and
\* outcome, and the exit price is the entry price.
RoundTrip ==
    /\ call.op = "close_position"
    /\ IsSome(call.prior)
    /\ Unwrap(call.prior).market_id = call.args.market_id
    /\ Unwrap(call.prior).outcome = call.args.outcome
    /\ Unwrap(call.prior).entry_price = call.args.exit_price

\* C6 as stated: for every ledger state, record_position followed at once by
\* close_position of the same market and outcome at the entry price returns pnl = 0
\* and restores total exposure to its value before record_position.
C6_RoundTripFromEveryLedger ==
    RoundTrip =>
        /\ call.ret = Some(0)
        /\ rm.total_exposure = Unwrap(call.prior).total_before

\* The market held no open position of that outcome with side buy before the record.
NoEarlierMatch ==
    \A i \in 1..Len(Unwrap(call.prior).earlier) :
        ~(/\ Unwrap(call.prior).earlier[i].outcome = call.args.outcome
          /\ Unwrap(call.prior).earlier[i].side = "buy")

\* C6 amended: the round trip returns pnl = 0 and restores total exposure when the
\* recorded side is buy and the market held no earlier open buy position of that
\* outcome.
C6_RoundTripOfFirstBuy ==
    (RoundTrip /\ Unwrap(call.prior).side = "buy" /\ NoEarlierMatch) =>
        /\ call.ret = Some(0)
        /\ rm.total_exposure = Unwrap(call.prior).total_before

\* C6 witness: a buy recorded behind other positions of the market has been closed
\* at its entry price.
C6_Witness ==
    /\ RoundTrip
    /\ Unwrap(call.prior).side = "buy"
    /\ NoEarlierMatch
    /\ Unwrap(call.prior).earlier # << >>
    /\ IsSome(call.args.exit_price)
    /\ call.ret = Some(0)

\* Sizes larger than the ones asked about
LargerSizes == QuerySizes \cup {90000, 200000}

\* C7: at a fixed ledger state and market, if can_open_position returns false for a
\* size then it returns false for every larger size.
C7_CanOpenMonotonicInSize ==
    (call.op = "can_open_position" /\ ~call.ret) =>
        \A s2 \in LargerSizes :
            s2 > call.args.size_usd =>
                ~can_open_position(riskCfg, rm, call.args.market_id, s2)

\* C7 witness: the smallest size has been denied by an exposure cap, not by the
\* daily loss limit.
C7_Witness ==
    /\ call.op = "can_open_position"
    /\ ~call.ret
    /\ call.args.size_usd = 9000
    /\ rm.daily_pnl > -riskCfg.max_daily_loss_usd

\* C8: a get_exposure call on the day of the previous get_exposure call, with no
\* record_position or close_position in between, returns the same snapshot and
\* leaves the ledger as it was.
C8_GetExposureIdempotentWithinDay ==
    (/\ call.op = "get_exposure"
     /\ IsSome(call.prior)
     /\ Unwrap(call.prior).day = call.args.day) =>
        /\ call.ret = Unwrap(call.prior).ret
        /\ rm = call.args.ledger_before

\* C8 witness: the second call of a day came after the first one had rolled a
\* non-zero daily PnL.
C8_Witness ==
    /\ call.op = "get_exposure"
    /\ IsSome(call.prior)
    /\ Unwrap(call.prior).day = call.args.day
    /\ call.args.day > 0
    /\ rm.last_reset_date = call.args.day
    /\ call.ret.open_positions > 0

\* The indexes of the open positions a close_position(market, outcome, ..) call can
\* take: the positions of the market with that outcome and side buy
BuysOf(ps, outcome) == {i \in 1..Len(ps) : ps[i].outcome = outcome /\ ps[i].side = "buy"}

\* C21: every close_position(market, outcome, exit_price) call removes exactly one
\* position, the earliest-inserted one of the market with that outcome and side buy (the
\* others keep their order, other markets are untouched), lowers total exposure by that
\* position's size and adds the pnl it returns, computed from that position's entry
\* price and size, to daily PnL; when the market holds no such position it returns none
\* and leaves the ledger as it was.
C21_CloseRemovesEarliestMatchingBuy ==
    [][(call'.op = "close_position" /\ writes' = writes + 1) =>
          LET m == call'.args.market_id
              ps == IF m \in DOMAIN rm.positions THEN rm.positions[m] ELSE << >>
              hits == BuysOf(ps, call'.args.outcome)
          IN IF hits = {}
             THEN call'.ret = None /\ rm' = rm
             ELSE LET k == CHOOSE i \in hits : \A j \in hits : i <= j
                      after == rm'.positions[m]
                  IN /\ Len(after) = Len(ps) - 1
                     /\ \A j \in 1..Len(after) : after[j] = IF j < k THEN ps[j] ELSE ps[j + 1]
                     /\ DOMAIN rm'.positions = DOMAIN rm.positions
                     /\ \A o \in DOMAIN rm.positions \ {m} : rm'.positions[o] = rm.positions[o]
                     /\ rm'.total_exposure = rm.total_exposure - ps[k].size_usd
                     /\ IsSome(call'.ret)
                     /\ Unwrap(call'.ret) =
                           IF IsSome(call'.args.exit_price) /\ ps[k].entry_price > 0
                           THEN ((Unwrap(call'.args.exit_price) - ps[k].entry_price)
                                    * ps[k].size_usd) \div ps[k].entry_price
                           ELSE 0
                     /\ rm'.daily_pnl = rm.daily_pnl + Unwrap(call'.ret)
                     /\ rm'.last_reset_date = rm.last_reset_date]_vars

\* C21, witness: a close took one of two open YES buys of a market at a loss: the later
\* one, of another size, is still open and daily PnL is below zero
C21_Witness ==
    /\ call.op = "close_position"
    /\ IsSome(call.ret)
    /\ call.args.outcome = "YES"
    /\ rm.daily_pnl < 0
    /\ Len(MarketPositions(rm, call.args.market_id)) = 1
    /\ MarketPositions(rm, call.args.market_id)[1].outcome = "YES"
    /\ MarketPositions(rm, call.args.market_id)[1].side = "buy"
    /\ MarketPositions(rm, call.args.market_id)[1].size_usd = 9000
    /\ rm.total_exposure = 9000

(***************************************************************************)
(* Properties of the Arbitrage Detector, checked under SpecArb.            *)
(***************************************************************************)
\* The outcome has asks and every ask carries a parseable price.
WellFormedAsks(book, o) ==
    /\ IsSome(book[o])
    /\ Unwrap(book[o]) # << >>
    /\ \A i \in 1..Len(Unwrap(book[o])) : IsSome(Unwrap(book[o])[i].price)

\* The lowest-priced ask of an outcome, the first listed among equals
LowestAsk(book, o) ==
    LET asks == Unwrap(book[o])
        lowest == {i \in 1..Len(asks) :
                      \A j \in 1..Len(asks) : Unwrap(asks[i].price) <= Unwrap(asks[j].price)}
    IN asks[CHOOSE i \in lowest : \A j \in lowest : i <= j]

LowestPrice(book, o) == Unwrap(LowestAsk(book, o).price)
AskLiquidity(a) == (IF IsSome(a.size) THEN Unwrap(a.size) ELSE 0) * Unwrap(a.price)

\* (yes_ask + no_ask) x 1.01, in 1/10000
ClosedFormCost(book) == (LowestPrice(book, "YES") + LowestPrice(book, "NO")) * 101

\* A scan_market call with internal detection on, on a fetched book whose asks are
\* well formed and whose best asks satisfy (yes_ask + no_ask) x 1.01 < 0.99.
ScannedBelowMargin ==
    /\ scan.op = "scan_market"
    /\ arbCfg.internal_arb_enabled
    /\ IsSome(scan.fetched)
    /\ WellFormedAsks(Unwrap(scan.fetched), "YES")
    /\ WellFormedAsks(Unwrap(scan.fetched), "NO")
    /\ ClosedFormCost(Unwrap(scan.fetched)) < 9900

\* profit_pct of the returned opportunity is (1 - fee_adjusted_cost) / fee_adjusted_cost
ProfitIsClosedForm ==
    LET c == ClosedFormCost(Unwrap(scan.fetched))
        opp == Unwrap(scan.ret)
    IN /\ opp.profit_pct[1] * c = (10000 - c) * opp.profit_pct[2]
       /\ opp.profit_pct[2] > 0
       /\ opp.yes_price = LowestPrice(Unwrap(scan.fetched), "YES")
       /\ opp.no_price = LowestPrice(Unwrap(scan.fetched), "NO")

\* The validity gate, from the book: the profit within [min, max] and both best
\* asks' size x price at least the liquidity floor
PassesValidityGate ==
    LET book == Unwrap(scan.fetched)
        c == ClosedFormCost(book)
    IN /\ (10000 - c) * 10000 >= arbCfg.min_arb_profit_pct * c
       /\ (10000 - c) * 10000 <= arbCfg.max_arb_profit_pct * c
       /\ AskLiquidity(LowestAsk(book, "YES")) >= arbCfg.min_liquidity_usd
       /\ AskLiquidity(LowestAsk(book, "NO")) >= arbCfg.min_liquidity_usd

NoAsksFor(book, o) == IF IsSome(book[o]) THEN Unwrap(book[o]) = << >> ELSE TRUE

\* C10: for every order book where yes_ask + no_ask >= 0.99 / 1.01, or where either
\* outcome has no asks, scanning the market returns no opportunity.
C10_NoOpportunityAtOrAboveMargin ==
    (scan.op = "scan_market" /\ IsSome(scan.fetched)) =>
        LET book == Unwrap(scan.fetched)
        IN (IF NoAsksFor(book, "YES") \/ NoAsksFor(book, "NO") THEN TRUE
            ELSE /\ WellFormedAsks(book, "YES")
                 /\ WellFormedAsks(book, "NO")
                 /\ ClosedFormCost(book) >= 9900)
           => scan.ret = None

\* C10 witness: asks that sum to 0.99, below 1 but not below the margin after fees,
\* have been scanned with a profit floor of zero and gave nothing.
C10_Witness ==
    /\ scan.op = "scan_market"
    /\ IsSome(scan.fetched)
    /\ arbCfg.internal_arb_enabled
    /\ arbCfg.min_arb_profit_pct = 0
    /\ WellFormedAsks(Unwrap(scan.fetched), "YES")
    /\ WellFormedAsks(Unwrap(scan.fetched), "NO")
    /\ LowestPrice(Unwrap(scan.fetched), "YES") + LowestPrice(Unwrap(scan.fetched), "NO") = 99
    /\ scan.ret = None


\* Position k is the last one of the batch that names its market id
LastScanOf(k) ==
    \A j \in (k + 1)..Len(scan.ids) : scan.ids[j] # scan.ids[k]

\* C11 as claimed: when scan_markets has returned, every id of the batch retains what
\* its latest scan found: the opportunity if one was found, and nothing if none was
\* found (has_opportunity false, get_opportunity none).
C11_RetainedOpportunityIsLatestScan ==
    (scan.op = "scan_markets" /\ ScanIdle) =>
        \A k \in 1..Len(scan.ids) :
            LastScanOf(k) =>
                /\ get_opportunity(active_opportunities, scan.ids[k]) = scan.found[k]
                /\ has_opportunity(arbCfg, active_opportunities, scan.ids[k])
                      = IsSome(scan.found[k])

(***************************************************************************)
(* Claims about the Copy Trader, under SpecCopy                            *)
(***************************************************************************)
\* Calls i < j of wallet w received the same trade: same hash, market, outcome, side
SameTradeTwice(w, i, j) ==
    /\ i < j
    /\ trade_key(Unwrap(log[w][i].trade)) = trade_key(Unwrap(log[w][j].trade))
    /\ Unwrap(log[w][i].trade).tx_hash = Unwrap(log[w][j].trade).tx_hash

\* Calls i and j are the first two deliveries of their trade to wallet w
FirstTwoDeliveries(w, i, j) ==
    /\ SameTradeTwice(w, i, j)
    /\ \A k \in 1..(j - 1) : k # i => ~SameTradeTwice(w, k, j)

\* C2 as claimed: a trade whose first delivery got as far as placing an order gets
\* exactly one placement attempt over its first two deliveries to the same trader,
\* whatever the gateway answered and whichever branch ran.
C2_ExactlyOnePlacementOverTwoDeliveries ==
    \A w \in Wallets : \A i, j \in 1..Len(log[w]) :
        FirstTwoDeliveries(w, i, j) /\ log[w][i].placements # << >>
            => Len(log[w][i].placements) + Len(log[w][j].placements) = 1

\* Some earlier call of wallet w for the key of call j returned true
CopiedBefore(w, j) ==
    \E i \in 1..(j - 1) : SameTradeTwice(w, i, j) /\ log[w][i].ret

\* C2, amended: a delivery finds its key marked exactly when an earlier delivery of the
\* same trade to the same trader succeeded; it is then dropped at the dedup gate with
\* no placement and no ledger or signal access, so the placements over the two
\* deliveries are those of the successful one: one in the directional branch, two in
\* the two-leg branch.
C2_NoPlacementAfterSuccessfulCopy ==
    \A w \in Wallets : \A j \in 1..Len(log[w]) :
        /\ log[w][j].marked <=> CopiedBefore(w, j)
        /\ log[w][j].marked =>
              /\ log[w][j].gate = "dedup" /\ ~log[w][j].ret
              /\ log[w][j].placements = << >> /\ log[w][j].recorded = << >>
              /\ ~log[w][j].risk_checked /\ ~log[w][j].signal_checked
        /\ log[w][j].ret =>
              Len(log[w][j].placements) = IF log[w][j].branch = "arbitrage" THEN 2 ELSE 1

\* C2, witness: a trade copied successfully and then delivered again to the same trader
C2_Witness ==
    \E w \in Wallets : \E i, j \in 1..Len(log[w]) :
        /\ FirstTwoDeliveries(w, i, j)
        /\ log[w][i].ret
        /\ log[w][j].gate = "dedup"

\* A returned call that took the two-leg path and attempted both placements
TwoLeg(e) == e.branch = "arbitrage" /\ Len(e.placements) = 2

\* The order of the one leg that was placed
PlacedLeg(e) == IF IsSome(e.yes_order) THEN Unwrap(e.yes_order) ELSE Unwrap(e.no_order)

\* C3: in the two-leg path, when exactly one leg was placed, cancel_order is called
\* once, for the order of that leg, and reaches the gateway; process_trade returns
\* false and the call records no position.
C3_OneLegFailedCancelsTheOtherAndRecordsNothing ==
    \A w \in Wallets : \A i \in 1..Len(log[w]) :
        LET e == log[w][i]
        IN TwoLeg(e) /\ (IsSome(e.yes_order) # IsSome(e.no_order))
              => /\ ~e.ret
                 /\ e.recorded = << >>
                 /\ Len(e.cancels) = 1
                 /\ e.cancels[1].order_id = PlacedLeg(e).order_id
                 /\ e.cancels[1].gateway_called
                 /\ PlacedLeg(e).order_id \in DOMAIN active_orders

\* C3, witness: the YES leg was placed, the NO leg failed, and the call has returned
C3_Witness ==
    \E w \in Wallets : \E i \in 1..Len(log[w]) :
        /\ TwoLeg(log[w][i])
        /\ IsSome(log[w][i].yes_order) /\ ~IsSome(log[w][i].no_order)
        /\ log[w][i].placements[1].ok /\ ~log[w][i].placements[2].ok

\* The ledger holds a position with the arguments of one record_position call
InLedger(rec) ==
    \E k \in 1..Len(MarketPositions(rm, rec.market_id)) :
        MarketPositions(rm, rec.market_id)[k] =
            [market_id |-> rec.market_id, outcome |-> rec.outcome, side |-> rec.side,
             size_usd |-> rec.size_usd, entry_price |-> Unwrap(rec.entry_price)]

\* C4: a two-leg trade returns true exactly when both placements succeeded; it then
\* recorded exactly two positions, YES buy and NO buy on the trade's market, each half of
\* the sized amount at the opportunity's ask price; in every other case it recorded none.
\* A two-leg trade still running has recorded none.
C4_TwoLegPositionsIffBothPlaced ==
    \A w \in Wallets :
        /\ trader[w].branch = "arbitrage" => trader[w].recorded = << >>
        /\ \A i \in 1..Len(log[w]) :
              LET e == log[w][i]
                  both == e.placements[1].ok /\ e.placements[2].ok
              IN TwoLeg(e) =>
                    /\ e.ret <=> both
                    /\ ~both => e.recorded = << >>
                    /\ both =>
                          /\ Len(e.recorded) = 2
                          /\ \A k \in 1..2 :
                                /\ e.recorded[k].market_id = Unwrap(e.trade).market_id
                                /\ e.recorded[k].side = "buy"
                                /\ 2 * e.recorded[k].size_usd = e.size
                                /\ InLedger(e.recorded[k])
                          /\ e.recorded[1].outcome = "YES"
                          /\ e.recorded[1].entry_price = Some(Unwrap(e.opp).yes_price)
                          /\ e.recorded[2].outcome = "NO"
                          /\ e.recorded[2].entry_price = Some(Unwrap(e.opp).no_price)

\* C4, witness: a two-leg trade with both legs placed has returned
C4_Witness ==
    \E w \in Wallets : \E i \in 1..Len(log[w]) :
        /\ TwoLeg(log[w][i])
        /\ log[w][i].placements[1].ok /\ log[w][i].placements[2].ok
        /\ log[w][i].ret

\* min(trade.size_usd x position_size_multiplier, max_position_size) is below 10 USD
BelowMinimumStake(cfg, trade) ==
    \/ trade.size_usd * cfg.position_size_multiplier < 100 * MinViableSize
    \/ cfg.max_position_size_usd < MinViableSize

\* C5: a trade whose sized amount is below 10 USD never reaches the risk gate: no
\* can_open_position call, no placement, no position, and process_trade returns false.
C5_BelowMinimumStakeIsDropped ==
    \A w \in Wallets :
        /\ \A i \in 1..Len(log[w]) :
              BelowMinimumStake(walletCfg[w], Unwrap(log[w][i].trade))
                 => /\ ~log[w][i].risk_checked
                    /\ log[w][i].placements = << >>
                    /\ log[w][i].recorded = << >>
                    /\ ~log[w][i].ret
        /\ trader[w].pc # "idle" /\ BelowMinimumStake(walletCfg[w], Unwrap(trader[w].trade))
              => trader[w].pc = "signal"

\* C5, witness: a trade of 50 USD at multiplier 0.1 has been dropped at the sizing gate
C5_Witness ==
    \E w \in Wallets : \E i \in 1..Len(log[w]) :
        /\ log[w][i].gate = "sizing"
        /\ Unwrap(log[w][i].trade).size_usd = 5000
        /\ walletCfg[w].position_size_multiplier = 10
        /\ log[w][i].size = 0

\* A returned call whose trade passed every gate of process_trade
PassedEveryGate(e) == e.gate \in {"none", "execution"}

\* The opportunity execute_copy_trade read is one the two-leg branch is for
InternalSignal(cfg, e) ==
    cfg.require_arb_signal /\ IsSome(e.opp) /\ Unwrap(e.opp).opportunity_type = "internal"

\* C19: for a trade that passed every gate, when the wallet requires a signal and the
\* opportunity read for the trade's market is internal, exactly two placements are
\* attempted, YES buy then NO buy on that market, each for half the sized amount at the
\* opportunity's ask price, and none at the trade's own terms; otherwise exactly one is
\* attempted, with the trade's market, outcome, side and price for sized amount / price
\* shares, and exactly one position is recorded when it succeeded and none when not.
C19_TwoLegsOnInternalSignalElseOneDirectionalOrder ==
    \A w \in Wallets : \A i \in 1..Len(log[w]) :
        LET e == log[w][i]
            trade == Unwrap(e.trade)
        IN PassedEveryGate(e) =>
              IF InternalSignal(walletCfg[w], e)
              THEN LET opp == Unwrap(e.opp)
                   IN /\ Len(e.placements) = 2
                      /\ opp.market_id = trade.market_id
                      /\ \A k \in 1..2 :
                            /\ e.placements[k].market_id = trade.market_id
                            /\ e.placements[k].side = "buy"
                      /\ e.placements[1].outcome = "YES"
                      /\ e.placements[1].price = opp.yes_price
                      /\ e.placements[1].size = <<Half(e.size), opp.yes_price>>
                      /\ e.placements[2].outcome = "NO"
                      /\ e.placements[2].price = opp.no_price
                      /\ e.placements[2].size = <<Half(e.size), opp.no_price>>
                      /\ 2 * Half(e.size) = e.size
              ELSE /\ Len(e.placements) = 1
                   /\ e.placements[1].market_id = trade.market_id
                   /\ e.placements[1].outcome = trade.outcome
                   /\ e.placements[1].side = trade.side
                   /\ e.placements[1].price = trade.price
                   /\ e.placements[1].size = <<e.size, trade.price>>
                   /\ e.size = calculate_position_size(walletCfg[w], trade)
                   /\ IF e.placements[1].ok
                      THEN e.recorded = <<Recorded(trade.market_id, e.size, trade.outcome,
                                                   trade.side, Some(trade.price))>>
                      ELSE e.recorded = << >>

\* C19, witness: one trader has returned from the two-leg branch and
\* the other from a directional order that was placed and recorded
C19_Witness ==
    \E w, v \in Wallets :
        /\ \E i \in 1..Len(log[w]) :
              /\ PassedEveryGate(log[w][i])
              /\ InternalSignal(walletCfg[w], log[w][i])
              /\ Len(log[w][i].placements) = 2
        /\ \E j \in 1..Len(log[v]) :
              /\ PassedEveryGate(log[v][j])
              /\ ~InternalSignal(walletCfg[v], log[v][j])
              /\ log[v][j].placements[1].ok
              /\ Len(log[v][j].recorded) = 1

\* The keys of the deliveries to wallet w that returned true
SucceededKeys(w) ==
    {trade_key(Unwrap(log[w][i].trade)) : i \in {k \in 1..Len(log[w]) : log[w][k].ret}}

\* C20: the keys a trader has marked are exactly the keys of its deliveries whose
\* execution succeeded, at every moment (so none is ever unmarked); a delivery whose key
\* is marked is dropped at the dedup gate with no placement; a delivery whose execution
\* failed leaves the marked keys as they were, and a later delivery of its key is not
\* stopped by the dedup gate unless a delivery in between succeeded.
C20_KeyMarkedIffExecutionSucceeded ==
    \A w \in Wallets :
        /\ copied_trades[w] = SucceededKeys(w)
        /\ \A j \in 1..Len(log[w]) :
              LET e == log[w][j]
                  key == trade_key(Unwrap(e.trade))
                  earlier == {trade_key(Unwrap(log[w][i].trade)) :
                                 i \in {k \in 1..(j - 1) : log[w][k].ret}}
              IN /\ key \in earlier =>
                       e.gate = "dedup" /\ e.placements = << >> /\ ~e.ret
                 /\ key \notin earlier =>
                       LET first == LocalGate(walletCfg[w], {}, Unwrap(e.trade))
                       IN IF first # "pass" THEN e.gate = first
                          ELSE e.gate \in {"signal", "sizing", "risk", "execution", "none"}
        /\ trader[w].pc # "idle" =>
              trade_key(Unwrap(trader[w].trade)) \notin copied_trades[w]

\* C20, witness: a delivery failed at the gateway, its key stayed unmarked, and the next
\* delivery of the same trade to that trader placed an order again and succeeded
C20_Witness ==
    \E w \in Wallets :
        /\ Len(log[w]) = 2
        /\ log[w][1].gate = "execution"
        /\ log[w][1].trade = log[w][2].trade
        /\ log[w][2].placements # << >>
        /\ log[w][2].ret
        /\ copied_trades[w] = {trade_key(Unwrap(log[w][1].trade))}

\* The amounts the returned calls of a trader handed to record_position for market m
RECURSIVE SumRecorded(_, _)
SumRecorded(lg, m) ==
    IF lg = << >> THEN 0
    ELSE SumSizes(SelectSeq(Head(lg).recorded, LAMBDA rec : rec.market_id = m))
             + SumRecorded(Tail(lg), m)

\* The exposure of market m on the ledger
MarketExposure(m) == SumSizes(MarketPositions(rm, m))

\* C22: record_position never rejects or re-validates: the exposure of every market
\* (and the total) is the sum of the amounts the traders recorded, each after its own
\* can_open_position check passed for the whole sized amount under the caps, whatever
\* the other trader recorded between the check and the record; so two traders that both
\* pass the check for a market before either records can take the ledger over the total
\* and the per-market cap (the state of C22_Witness).
C22_RecordPositionNeverRevalidates ==
    /\ \A m \in Markets :
          MarketExposure(m) = SumRecorded(log["w1"], m) + SumRecorded(log["w2"], m)
    /\ rm.total_exposure = MarketExposure("m1") + MarketExposure("m2")
    /\ \A w \in Wallets : \A i \in 1..Len(log[w]) :
          log[w][i].recorded # << >> =>
              /\ log[w][i].risk_checked
              /\ log[w][i].ret
              /\ SumSizes(log[w][i].recorded) = log[w][i].size
              /\ log[w][i].size <= riskCfg.max_total_exposure_usd
              /\ log[w][i].size <= riskCfg.max_position_per_market_usd

\* C22, witness: the traders of the two wallets each passed can_open_position for
\* market m1 and recorded; total exposure and the exposure of m1 are above their caps
C22_Witness ==
    /\ rm.total_exposure > riskCfg.max_total_exposure_usd
    /\ MarketExposure("m1") > riskCfg.max_position_per_market_usd
    /\ \A w \in Wallets :
          /\ Len(log[w]) = 1
          /\ log[w][1].risk_checked
          /\ log[w][1].ret
          /\ Unwrap(log[w][1].trade).market_id = "m1"

\* C23: when process_trade calls run strictly one at a time and only the Copy Traders
\* record positions, total exposure never exceeds max_total_exposure and no market's
\* exposure exceeds max_position_per_market, whichever branch recorded.  Checked under
\* SpecCopySeq.
C23_SequentialCopiesKeepTheCaps ==
    /\ rm.total_exposure <= riskCfg.max_total_exposure_usd
    /\ \A m \in Markets : MarketExposure(m) <= riskCfg.max_position_per_market_usd

\* C23, witness: after a two-leg copy was recorded, the next trade, which would have
\* taken the ledger over the caps, was dropped at the risk gate
C23_Witness ==
    \E w, v \in Wallets :
        /\ \E i \in 1..Len(log[w]) : log[w][i].ret /\ Len(log[w][i].recorded) = 2
        /\ \E j \in 1..Len(log[v]) :
              /\ log[v][j].gate = "risk"
              /\ rm.total_exposure + log[v][j].size > riskCfg.max_total_exposure_usd
        /\ rm.total_exposure > 0

\* A process_trade call, returned or running, that has attempted a placement or is
\* about to
AttemptsPlacement(e) == e.placements # << >> \/ e.pc \in {"place", "yes", "no"}

\* What the call of wallet w has behind it when it places an order.  The detector never
\* removes an opportunity and its configuration is fixed, so a valid opportunity
\* reported at the signal gate is still reported afterwards.
EveryGatePassed(w, e) ==
    LET cfg == walletCfg[w]
        trade == Unwrap(e.trade)
    IN /\ ~e.marked
       /\ cfg.enabled
       /\ IsSome(cfg.markets_filter) => trade.market_id \in Unwrap(cfg.markets_filter)
       /\ e.signal_checked = cfg.require_arb_signal
       /\ cfg.require_arb_signal =>
             /\ trade.market_id \in DOMAIN active_opportunities
             /\ is_valid(arbCfg, active_opportunities[trade.market_id])
       /\ e.size >= MinViableSize
       /\ e.size = Min((trade.size_usd * cfg.position_size_multiplier) \div 100,
                       cfg.max_position_size_usd)
       /\ e.risk_checked
       /\ e.gate \in {"none", "execution"}

\* The gates come in the order dedup, eligibility, allow-list, signal, sizing, risk: a
\* call dropped at one has passed those before it and has not reached those after it
GateOrderKept(w, e) ==
    LET cfg == walletCfg[w]
        trade == Unwrap(e.trade)
        listed == IF IsSome(cfg.markets_filter)
                  THEN trade.market_id \in Unwrap(cfg.markets_filter) ELSE TRUE
    IN /\ e.gate = "dedup" => e.marked
       /\ e.gate = "eligibility" => ~e.marked /\ ~cfg.enabled
       /\ e.gate = "filter" => ~e.marked /\ cfg.enabled /\ ~listed
       /\ e.gate \in {"dedup", "eligibility", "filter"} =>
             ~e.signal_checked /\ e.size = 0 /\ ~e.risk_checked
       /\ e.gate = "signal" =>
             /\ ~e.marked /\ cfg.enabled /\ listed
             /\ cfg.require_arb_signal /\ e.signal_checked
             /\ e.size = 0 /\ ~e.risk_checked
       /\ e.gate = "sizing" =>
             /\ ~e.marked /\ cfg.enabled /\ listed
             /\ e.signal_checked = cfg.require_arb_signal
             /\ calculate_position_size(cfg, trade) = 0 /\ ~e.risk_checked
       /\ e.gate = "risk" =>
             /\ ~e.marked /\ cfg.enabled /\ listed
             /\ e.signal_checked = cfg.require_arb_signal
             /\ e.size >= MinViableSize /\ e.risk_checked

\* C24: an order placement is attempted for a trade only if every gate passed for it, in
\* the order dedup, eligibility, allow-list, signal (when required), sizing, risk: a call
\* that places an order has an unmarked key, an enabled wallet, a listed market, a valid
\* opportunity for the market when the wallet requires a signal, a sized amount of at
\* least 10 and a can_open_position answer of true for that amount; the signal gate and
\* the risk gate let a call through only when has_opportunity, respectively
\* can_open_position, is true on the detector, respectively the ledger, they read.
C24_PlacementOnlyAfterEveryGate ==
    /\ [](\A w \in Wallets :
             /\ \A i \in 1..Len(log[w]) :
                   /\ GateOrderKept(w, log[w][i])
                   /\ AttemptsPlacement(log[w][i]) => EveryGatePassed(w, log[w][i])
             /\ (trader[w].pc # "idle" /\ AttemptsPlacement(trader[w])) =>
                   EveryGatePassed(w, trader[w]))
    /\ [][\A w \in Wallets :
             /\ (trader[w].pc = "signal" /\ trader'[w].pc \notin {"signal", "idle"}) =>
                   has_opportunity(arbCfg, active_opportunities,
                                   Unwrap(trader[w].trade).market_id)
             /\ (trader[w].pc = "risk" /\ trader'[w].pc \notin {"risk", "idle"}) =>
                   can_open_position(riskCfg, rm, Unwrap(trader[w].trade).market_id,
                                     trader[w].size)]_vars

\* C24, witness: a wallet that requires a signal has placed an order, and another call
\* was dropped at the allow-list or at the risk gate
C24_Witness ==
    /\ \E w \in Wallets : \E i \in 1..Len(log[w]) :
          walletCfg[w].require_arb_signal /\ log[w][i].placements # << >>
    /\ \E w \in Wallets : \E i \in 1..Len(log[w]) : log[w][i].gate \in {"filter", "risk"}

\* The gates of process_trade
Gates == {"dedup", "eligibility", "filter", "signal", "sizing", "risk"}

\* Wallet w's process_trade call takes a step in which it has placed no order yet and
\* goes on to a later gate or is dropped at one
GateStep(w) ==
    /\ trader'[w] # trader[w] \/ log'[w] # log[w]
    /\ trader[w].pc \in {"idle", "signal", "risk"}
    /\ \/ trader'[w].pc \in {"signal", "risk"}
       \/ /\ Len(log'[w]) = Len(log[w]) + 1
          /\ log'[w][Len(log'[w])].gate \in Gates

\* C25: a trade dropped at a gate (dedup, eligibility, allow-list, signal, sizing, risk)
\* leaves the ledger (positions, total exposure, daily PnL), the executor's table and
\* every trader's dedup set as they were, in each step of its evaluation; the call has
\* placed, recorded and cancelled nothing, and when it returns the trader is idle with
\* nothing kept of the trade (no retry is scheduled).
C25_DroppedTradeChangesNothing ==
    /\ [][\A w \in Wallets :
             GateStep(w) =>
                /\ rm' = rm
                /\ active_orders' = active_orders
                /\ copied_trades' = copied_trades
                /\ Len(log'[w]) = Len(log[w]) + 1 => trader'[w] = Idle]_vars
    /\ [](\A w \in Wallets : \A i \in 1..Len(log[w]) :
             log[w][i].gate \in Gates =>
                /\ ~log[w][i].ret
                /\ log[w][i].placements = << >>
                /\ log[w][i].recorded = << >>
                /\ log[w][i].cancels = << >>)

\* C25, witness: with a position on the ledger, an order in the table and a key marked,
\* a later trade has been dropped at the risk gate
C25_Witness ==
    /\ rm.total_exposure > 0
    /\ active_orders # << >>
    /\ \E w \in Wallets : copied_trades[w] # {}
    /\ \E w \in Wallets : \E i \in 1..Len(log[w]) : log[w][i].gate = "risk"

\* The exposure of market m on ledger r
ExposureOf(r, m) == SumSizes(MarketPositions(r, m))

\* C26: the step in which a process_trade call returns true raises the ledger's total
\* exposure and the exposure of the trade's market by exactly
\* min(trade.size_usd x position_size_multiplier, max_position_size), which is the
\* amount the call passed to can_open_position, and leaves the other markets alone: by
\* one position in the directional branch, by two positions of half the amount each in
\* the two-leg branch.
C26_SuccessfulCopyAddsTheSizedAmount ==
    [][\A w \in Wallets :
          (Len(log'[w]) = Len(log[w]) + 1 /\ log'[w][Len(log'[w])].ret) =>
              LET e == log'[w][Len(log'[w])]
                  trade == Unwrap(e.trade)
                  cfg == walletCfg[w]
                  amount == Min((trade.size_usd * cfg.position_size_multiplier) \div 100,
                                cfg.max_position_size_usd)
              IN /\ e.risk_checked /\ e.size = amount
                 /\ rm'.total_exposure = rm.total_exposure + amount
                 /\ \A m \in Markets :
                       ExposureOf(rm', m) =
                           ExposureOf(rm, m) + IF m = trade.market_id THEN amount ELSE 0
                 /\ Len(MarketPositions(rm', trade.market_id))
                       = Len(MarketPositions(rm, trade.market_id))
                            + IF InternalSignal(cfg, e) THEN 2 ELSE 1
                 /\ InternalSignal(cfg, e) =>
                       /\ e.recorded[1].size_usd + e.recorded[1].size_usd = amount
                       /\ e.recorded[2].size_usd = e.recorded[1].size_usd]_vars

\* C26, witness: a directional copy capped by max_position_size and a two-leg copy
\* scaled by the multiplier have both returned true
C26_Witness ==
    \E w, v \in Wallets :
        /\ \E i \in 1..Len(log[w]) :
              /\ log[w][i].ret /\ Len(log[w][i].recorded) = 1
              /\ log[w][i].size = walletCfg[w].max_position_size_usd
              /\ Unwrap(log[w][i].trade).size_usd > log[w][i].size
        /\ \E j \in 1..Len(log[v]) :
              /\ log[v][j].ret /\ Len(log[v][j].recorded) = 2
              /\ log[v][j].size < walletCfg[v].max_position_size_usd

(***************************************************************************)
(* Claims about the Order Executor, under SpecExec                         *)
(***************************************************************************)
\* C16: place_order returns an order exactly when the gateway returned a response; the
\* order is then in the table under its id with status pending and the arguments of
\* the call, and every other entry is as before; when the gateway failed the table is
\* as before.
C16_PlaceOrderInsertsPendingIffGatewayAnswered ==
    ecall.op = "place_order" =>
        /\ IsSome(ecall.ret) <=> IsSome(ecall.answer)
        /\ ~IsSome(ecall.answer) => active_orders = ecall.before
        /\ IsSome(ecall.answer) =>
              LET order == Unwrap(ecall.ret)
              IN /\ order.status = "pending"
                 /\ order.market_id = ecall.args.market_id
                 /\ order.outcome = ecall.args.outcome
                 /\ order.side = ecall.args.side
                 /\ order.price = ecall.args.price
                 /\ order.size = ecall.args.size
                 /\ DOMAIN active_orders = DOMAIN ecall.before \cup {order.order_id}
                 /\ active_orders[order.order_id] = order
                 /\ \A k \in DOMAIN ecall.before :
                        k # order.order_id => active_orders[k] = ecall.before[k]

\* C16, witness: a placement the gateway failed, on a table that holds the order of an
\* earlier answered placement
C16_Witness ==
    /\ ecall.op = "place_order"
    /\ ~IsSome(ecall.answer)
    /\ ecall.before # << >>
    /\ active_orders = ecall.before

\* C17: cancel_order of an unknown id returns false with no gateway call and no change;
\* of a known id it calls the gateway, and the status becomes cancelled with result true
\* exactly when the gateway confirms; otherwise the table is unchanged and the result
\* is false.
C17_CancelOrderFlipsStatusOnlyOnConfirmation ==
    ecall.op = "cancel_order" =>
        IF ecall.order_id \notin DOMAIN ecall.before
        THEN ~ecall.ret /\ ~ecall.gateway_called /\ active_orders = ecall.before
        ELSE /\ ecall.gateway_called
             /\ ecall.ret = ecall.confirmed
             /\ IF ecall.confirmed
                THEN /\ DOMAIN active_orders = DOMAIN ecall.before
                     /\ active_orders[ecall.order_id].status = "cancelled"
                     /\ \A k \in DOMAIN ecall.before :
                            /\ k # ecall.order_id => active_orders[k] = ecall.before[k]
                            /\ active_orders[k].market_id = ecall.before[k].market_id
                            /\ active_orders[k].size = ecall.before[k].size
                ELSE active_orders = ecall.before

\* C17, witness: the gateway refused the cancellation of a pending order of the table
C17_Witness ==
    /\ ecall.op = "cancel_order"
    /\ ecall.order_id \in DOMAIN ecall.before
    /\ ~ecall.confirmed
    /\ active_orders[ecall.order_id].status = "pending"

\* C18 as claimed: after a confirmed cancel_order(id) the order is in neither
\* get_active_orders nor get_market_orders, and no other call removes an entry.
C18_ConfirmedCancelRemovesTheOrder ==
    /\ (ecall.op = "cancel_order" /\ ecall.ret) =>
          /\ ecall.order_id \notin DOMAIN get_active_orders(active_orders)
          /\ \A m \in Markets : \A o \in get_market_orders(active_orders, m) :
                o.order_id # ecall.order_id
    /\ (ecall.op = "place_order" \/ (ecall.op = "cancel_order" /\ ~ecall.ret)) =>
          DOMAIN ecall.before \subseteq DOMAIN get_active_orders(active_orders)

(***************************************************************************)
(* Claims about the Wallet Monitor, under SpecMon                          *)
(***************************************************************************)
\* The latest turn of check_wallet's loop judged a parsed trade
Judged == IsSome(mon.step) /\ Unwrap(mon.step).verdict \in {"new", "duplicate"}

\* Entry e of a history has the hash of trade t (both present), or its market, outcome
\* and side and a timestamp less than 5 seconds from t's (instants are half seconds)
TwinOf(e, t) ==
    \/ IsSome(e.tx_hash) /\ IsSome(t.tx_hash) /\ e.tx_hash = t.tx_hash
    \/ /\ e.market_id = t.market_id /\ e.outcome = t.outcome /\ e.side = t.side
       /\ e.timestamp - t.timestamp < 2 * NoveltyWindow
       /\ t.timestamp - e.timestamp < 2 * NoveltyWindow

\* C12: the novelty test judges a trade a duplicate exactly when the wallet's history
\* holds an entry with the same hash (both present) or with the same market, outcome and
\* side and a timestamp less than 5 seconds away (two timestamps exactly 5 seconds
\* apart are not within the window); in every other case it judges the trade new.
C12_DuplicateIffSameHashOrNearTwin ==
    Judged =>
        LET st == Unwrap(mon.step)
        IN (st.verdict = "duplicate") <=>
              \E i \in 1..Len(st.history_before) :
                  TwinOf(st.history_before[i], Unwrap(st.trade))

\* C12, witness: a trade judged new although the history holds its market, outcome and
\* side exactly 5 seconds earlier, and under another hash
C12_Witness ==
    /\ Judged
    /\ Unwrap(mon.step).verdict = "new"
    /\ \E i \in 1..Len(Unwrap(mon.step).history_before) :
          LET e == Unwrap(mon.step).history_before[i]
              t == Unwrap(Unwrap(mon.step).trade)
          IN /\ e.market_id = t.market_id /\ e.outcome = t.outcome /\ e.side = t.side
             /\ t.timestamp - e.timestamp = 2 * NoveltyWindow

\* C13: a trade is appended to its wallet's history exactly when the novelty test judged
\* it new against the history of that moment, and only such a trade is handed to the
\* callback; the append comes first (while the callback is awaited the trade is already
\* the last entry of the history); a duplicate or dropped record changes neither the
\* history nor what was forwarded.
C13_OnlyNovelTradesAppendedThenForwarded ==
    /\ \A w \in Wallets :
          IF ~mon.callback THEN forwarded[w] = << >>
          ELSE IF mon.pc = "callback" /\ mon.wallet = w
          THEN trade_history[w] = Append(forwarded[w], Unwrap(mon.pending))
          ELSE forwarded[w] = trade_history[w]
    /\ IsSome(mon.step) =>
          LET st == Unwrap(mon.step)
              w == mon.wallet
          IN IF IsSome(st.trade) /\ is_new_trade(st.history_before, Unwrap(st.trade))
             THEN /\ st.verdict = "new"
                  /\ trade_history[w] = Append(st.history_before, Unwrap(st.trade))
                  /\ mon.pc = "callback" => mon.pending = st.trade
             ELSE /\ st.verdict # "new"
                  /\ trade_history[w] = st.history_before
                  /\ forwarded[w] = st.forwarded_before
                  /\ mon.pc # "callback"

\* C13, witness: a record judged duplicate after an earlier one was appended and
\* forwarded
C13_Witness ==
    /\ Judged
    /\ Unwrap(mon.step).verdict = "duplicate"
    /\ forwarded[mon.wallet] # << >>
    /\ forwarded[mon.wallet] = Unwrap(mon.step).history_before

\* A raw record lacks a usable market id, outcome, side or price; case is not held
\* against an outcome or a side
MissingOrInvalid(trade_data) ==
    \/ ~IsSome(GetStr(trade_data.marketId))
    \/ ~IsSome(GetStr(trade_data.outcome))
    \/ ToUppercase(UnwrapOr(GetStr(trade_data.outcome), "")) \notin Outcomes
    \/ ~IsSome(GetStr(trade_data.side))
    \/ ToLowercase(UnwrapOr(GetStr(trade_data.side), "")) \notin Sides
    \/ ~IsSome(GetF64(trade_data.price))
    \/ UnwrapOr(GetF64(trade_data.price), 0) <= 0

\* C14 as claimed: a raw record with a missing or invalid market id, outcome, side or
\* price is dropped: no trade is made of it, nothing is appended or forwarded, and the
\* loop goes on with the rest of the batch.
C14_MissingOrInvalidFieldDropsTheRecord ==
    (IsSome(mon.step) /\ MissingOrInvalid(Unwrap(mon.step).trade_data)) =>
        /\ Unwrap(mon.step).verdict = "dropped"
        /\ ~IsSome(Unwrap(mon.step).trade)
        /\ trade_history[mon.wallet] = Unwrap(mon.step).history_before
        /\ forwarded[mon.wallet] = Unwrap(mon.step).forwarded_before
        /\ mon.pc = IF mon.pos > Len(mon.batch) THEN "idle" ELSE "loop"

\* A WalletTrade within its closed sets
WalletTradeOk(t) == t.outcome \in Outcomes /\ t.side \in Sides /\ t.price > 0

\* C15: every trade of a wallet's history, every trade handed to the callback and the
\* trade the callback is about to receive has outcome YES or NO, side buy or sell and a
\* price above zero.
C15_EveryWalletTradeWithinClosedSets ==
    /\ \A w \in Wallets :
          /\ \A i \in 1..Len(trade_history[w]) : WalletTradeOk(trade_history[w][i])
          /\ \A i \in 1..Len(forwarded[w]) : WalletTradeOk(forwarded[w][i])
    /\ IsSome(mon.pending) => WalletTradeOk(Unwrap(mon.pending))
    /\ (IsSome(mon.step) /\ IsSome(Unwrap(mon.step).trade)) =>
          WalletTradeOk(Unwrap(Unwrap(mon.step).trade))

\* C15, witness: a record written "yes" / "BUY" is in the history as YES / buy and was
\* forwarded, and a record with an outcome outside the closed set was then dropped
C15_Witness ==
    /\ IsSome(mon.step)
    /\ Unwrap(mon.step).trade_data.outcome = Some(<<"str", "maybe">>)
    /\ Unwrap(mon.step).verdict = "dropped"
    /\ \E i \in 1..Len(forwarded[mon.wallet]) :
          /\ forwarded[mon.wallet][i].outcome = "YES"
          /\ forwarded[mon.wallet][i].side = "buy"
          /\ forwarded[mon.wallet][i].tx_hash = Some("0xa")

\* The trades parse_trade makes of a raw record of wallet w, at any instant
TradesOf(trade_data, w) == {parse_trade(trade_data, w, now) : now \in Nows} \ {None}

\* C27 as claimed: a raw record the data source returns again on a later poll cycle is
\* forwarded to the wallet's callback at most once: when the callback is about to
\* receive the trade made of a record, no trade made of that record was forwarded to it
\* in an earlier poll cycle.
C27_RawRecordForwardedAtMostOnce ==
    (mon.pc = "callback" /\ IsSome(mon.step)) =>
        \A i \in 1..mon.forwarded_at_poll :
            Some(forwarded[mon.wallet][i]) \notin TradesOf(Unwrap(mon.step).trade_data,
                                                           mon.wallet)

(***************************************************************************)
(* Claims about the polling loop, under SpecLoopFair                       *)
(***************************************************************************)
\* The flag was cleared by a stop task while the loop was running
ClearedUnderLoop == IsSome(loop.cleared)

\* C30: once a stop task has cleared the running flag under the running loop, no new
\* poll cycle begins: the loop finishes the cycle and the sleep in progress, if any,
\* reads the flag at the next cycle boundary and terminates; the flag stays false.
C30_LoopEndsAtNextBoundaryAfterClear ==
    /\ [](ClearedUnderLoop =>
             /\ ~loop.running
             /\ loop.cycles = Unwrap(loop.cleared).cycles)
    /\ [][ClearedUnderLoop => ~(loop.pc = "while" /\ loop'.pc = "cycle")]_vars
    /\ (ClearedUnderLoop ~> loop.pc = "done")

\* C30, witness: the flag was cleared in the middle of the second cycle and the loop has
\* ended without a third
C30_Witness ==
    /\ ClearedUnderLoop
    /\ Unwrap(loop.cleared).pc = "cycle"
    /\ Unwrap(loop.cleared).cycles = 2
    /\ loop.pc = "done"
    /\ loop.cycles = 2

(***************************************************************************)
(* Claims about the shared locks, under SpecLock and SpecLockFair          *)
(***************************************************************************)
\* The tasks suspended in a gateway call
InNetworkCall == {w \in Wallets : lk.task[w].phase = "net"}

\* C28: no task suspended in a gateway call (order placement or cancellation) holds a
\* guard of a shared lock, and so no other task waits for a lock that a suspended task
\* holds.
C28_NoLockHeldAcrossNetworkCall ==
    /\ \A w \in InNetworkCall : Holds(w) = {}
    /\ \A w \in InNetworkCall : \A l \in Holds(w) : lk.queue[l] = << >>

\* A task waits for a lock / runs process_trade
Waiting(w) == lk.task[w].phase = "waiting"
InProcessTrade(w) == lk.task[w].pc # "idle"

\* C29: a task that waits for a shared lock holds none of them, and every process_trade
\* call begun returns, given that every gateway call returns.
C29_NoHoldAndWaitAndEveryCallReturns ==
    /\ [](\A w \in Wallets : Waiting(w) => Holds(w) = {})
    /\ \A w \in Wallets : InProcessTrade(w) ~> ~InProcessTrade(w)

\* C29, witness: both traders are inside process_trade; w2 waits for the executor lock,
\* holding nothing, while w1 holds it with an order placement in flight.
C29_Witness ==
    /\ Waiting("w2")
    /\ lk.task["w2"].pc = "place_order"
    /\ Holds("w2") = {}
    /\ lk.task["w1"].phase = "net"
    /\ "executor" \in Holds("w1")

\* C31: when stop_monitoring is called after start_monitoring was called, the polling
\* loop eventually terminates, however the spawned task that clears the flag and the
\* first write of start_monitoring (running = true) are ordered.
C31_StopAfterStartEndsTheLoop ==
    loop.stop_after_start ~> (loop.pc = "done")

(***************************************************************************)
(* Claims about the reads of the Arbitrage Detector, under SpecArb         *)
(***************************************************************************)
\* The validity gate, on the detector's configuration
WithinGate(opp) ==
    /\ opp.profit_pct[1] * 10000 >= arbCfg.min_arb_profit_pct * opp.profit_pct[2]
    /\ opp.profit_pct[1] * 10000 <= arbCfg.max_arb_profit_pct * opp.profit_pct[2]
    /\ opp.liquidity_yes >= arbCfg.min_liquidity_usd
    /\ opp.liquidity_no >= arbCfg.min_liquidity_usd

\* C33: every opportunity has_opportunity reports as present, and every opportunity
\* get_opportunity returns, has its profit within [min_profit_pct, max_profit_pct] and
\* both liquidities at or above the floor when it is read.
C33_EveryOpportunityReadIsWithinTheGate ==
    \A m \in Markets :
        /\ has_opportunity(arbCfg, active_opportunities, m) =>
               WithinGate(active_opportunities[m])
        /\ IsSome(get_opportunity(active_opportunities, m)) =>
               WithinGate(Unwrap(get_opportunity(active_opportunities, m)))

\* C33, witness: a scan has retained an opportunity for m1 and both reads report it,
\* under a configuration with a positive profit floor
C33_Witness ==
    /\ arbCfg.min_arb_profit_pct > 0
    /\ has_opportunity(arbCfg, active_opportunities, "m1")
    /\ IsSome(get_opportunity(active_opportunities, "m1"))

(***************************************************************************)
(* Claims about the signal as a soft input, under SpecCopy                 *)
(***************************************************************************)
\* An order book answer that is missing, or lacks an outcome's asks, or has none, or
\* has an ask whose price does not parse
Unusable(fetched) ==
    \/ ~IsSome(fetched)
    \/ \E o \in {"YES", "NO"} :
          LET asks == Unwrap(fetched)[o]
          IN \/ ~IsSome(asks)
             \/ Unwrap(asks) = << >>
             \/ \E i \in 1..Len(Unwrap(asks)) : ~IsSome(Unwrap(asks)[i].price)

\* scan_market answers none for every unusable book, on every configuration and market
UnusableBookGivesNoOpportunity ==
    \A cfg \in ArbitrageConfigs, m \in Markets, f \in Fetches :
        Unusable(f) => scan_market(cfg, m, f) = None

\* What a returned call of a wallet without require_arb_signal must be, written without
\* the detector: no read of it, at most the one order on the trade's own terms, one
\* position exactly when that order was placed, and true exactly then
DetectorFree(w, e) ==
    LET tr == Unwrap(e.trade)
    IN /\ ~e.signal_checked
       /\ e.opp = None
       /\ e.gate # "signal"
       /\ e.branch # "arbitrage"
       /\ e.cancels = << >>
       /\ Len(e.placements) <= 1
       /\ \A i \in 1..Len(e.placements) :
             e.placements[i] =
                 Placement(tr.market_id, tr.outcome, tr.side, tr.price, e.size,
                           IF e.placements[i].ok THEN Some("id") ELSE None)
       /\ e.ret <=> (Len(e.placements) = 1 /\ e.placements[1].ok)
       /\ e.recorded = IF e.ret
                       THEN <<Recorded(tr.market_id, e.size, tr.outcome, tr.side,
                                       Some(tr.price))>>
                       ELSE << >>
       /\ e.risk_checked => e.size = calculate_position_size(walletCfg[w], tr)

\* C32: a missing, malformed or partial order book makes scan_market return no
\* opportunity under every configuration, and every returned process_trade call of a
\* wallet that does not require a signal has the orders, positions and return value its
\* trade, sizing, risk verdict and gateway answer give, whatever the detector holds.
C32_NoSignalNeverBlocks ==
    /\ UnusableBookGivesNoOpportunity
    /\ \A w \in Wallets :
          ~walletCfg[w].require_arb_signal =>
              \A i \in 1..Len(log[w]) : DetectorFree(w, log[w][i])

\* C32, witness: the detector holds no opportunity at all, and a wallet that does not
\* require a signal has copied a trade: process_trade returned true with its order placed
C32_Witness ==
    /\ active_opportunities = << >>
    /\ \E w \in Wallets :
          /\ ~walletCfg[w].require_arb_signal
          /\ \E i \in 1..Len(log[w]) :
                /\ log[w][i].ret
                /\ Len(log[w][i].placements) = 1

(***************************************************************************)
(* Claims about the daily roll and the exposure total, under SpecRisk      *)
(***************************************************************************)
\* C34: a get_exposure call sets daily PnL to zero exactly when the day it reads differs
\* from the day of the last reset, and then records the day of the reset, so that a call
\* on the recorded day finds nothing to reset; on an unchanged day it leaves the ledger,
\* daily PnL included, as it was.  Positions and total exposure are never touched.
C34_DailyRollExactlyOnANewDay ==
    call.op = "get_exposure" =>
        LET before == call.args.ledger_before
            day == call.args.day
        IN /\ rm.positions = before.positions
           /\ rm.total_exposure = before.total_exposure
           /\ IF day # before.last_reset_date
              THEN /\ rm.daily_pnl = 0
                   /\ rm.last_reset_date \in {day, day + 1}
                   /\ rm.last_reset_date # before.last_reset_date
                   /\ call.ret.daily_pnl_usd = 0
              ELSE /\ rm.daily_pnl = before.daily_pnl
                   /\ rm.last_reset_date = before.last_reset_date
                   /\ call.ret.daily_pnl_usd = before.daily_pnl

\* C34, witness: a loss was booked on day 0 and a get_exposure call on day 1 has rolled
\* it to zero and recorded day 1
C34_Witness ==
    /\ call.op = "get_exposure"
    /\ call.args.day = 1
    /\ call.args.ledger_before.last_reset_date = 0
    /\ call.args.ledger_before.daily_pnl < 0
    /\ rm.daily_pnl = 0
    /\ rm.last_reset_date = 1

\* The daily loss limit is reached
AtDailyLossLimit(r) == r.daily_pnl <= -riskCfg.max_daily_loss_usd

\* C35: while daily PnL is at or below -max_daily_loss, can_open_position is false for
\* every market and size, on the day of the loss and on every later day; a
\* can_open_position call changes nothing in the ledger, and daily PnL leaves the limit
\* only through a get_exposure call or a close_position call.
C35_DailyLossBlocksUntilGetExposureRolls ==
    /\ [](AtDailyLossLimit(rm) =>
             \A m \in Markets, s \in QuerySizes \cup {1} :
                 ~can_open_position(riskCfg, rm, m, s))
    /\ [][/\ call'.op = "can_open_position" => rm' = rm
          /\ (AtDailyLossLimit(rm) /\ ~AtDailyLossLimit(rm')) =>
                 call'.op \in {"get_exposure", "close_position"}]_vars

\* C35, witness: the loss was booked on day 0, the day has changed, no get_exposure call
\* has rolled it, and can_open_position has just refused a size the caps allow
C35_Witness ==
    /\ AtDailyLossLimit(rm)
    /\ today = 1
    /\ rm.last_reset_date = 0
    /\ call.op = "can_open_position"
    /\ ~call.ret
    /\ rm.total_exposure + call.args.size_usd <= riskCfg.max_total_exposure_usd
    /\ SumSizes(MarketPositions(rm, call.args.market_id)) + call.args.size_usd
           <= riskCfg.max_position_per_market_usd

\* The sizes of all open positions, market by market
RECURSIVE SumOpen(_, _)
SumOpen(r, keys) ==
    IF keys = {} THEN 0
    ELSE LET k == CHOOSE x \in keys : TRUE
         IN SumSizes(r.positions[k]) + SumOpen(r, keys \ {k})

RECURSIVE SumMap(_, _)
SumMap(f, keys) ==
    IF keys = {} THEN 0
    ELSE LET k == CHOOSE x \in keys : TRUE
         IN f[k] + SumMap(f, keys \ {k})

\* C36: after any sequence of record_position and close_position calls, total exposure
\* is the sum of the sizes of all open positions over all markets, which is the sum of
\* the per-market map get_exposure returns, and it is never negative.
C36_TotalExposureIsTheSumOfOpenPositions ==
    /\ rm.total_exposure = SumOpen(rm, DOMAIN rm.positions)
    /\ rm.total_exposure >= 0
    /\ LET snap == Metrics(riskCfg, rm)
       IN /\ snap.total_exposure_usd = SumMap(snap.market_exposures,
                                              DOMAIN snap.market_exposures)
          /\ \A k \in DOMAIN snap.market_exposures : snap.market_exposures[k] >= 0
    /\ call.op = "get_exposure" =>
           call.ret.total_exposure_usd = SumMap(call.ret.market_exposures,
                                                DOMAIN call.ret.market_exposures)

\* C36, witness: positions were recorded on both markets, one of them was closed, and
\* get_exposure has returned a snapshot of what is left
C36_Witness ==
    /\ call.op = "get_exposure"
    /\ writes = 3
    /\ call.ret.open_positions = 1
    /\ Cardinality(DOMAIN rm.positions) = 2
    /\ rm.total_exposure > 0

\* The positions of a market recorded with side sell, in order
IsSell(p) == p.side = "sell"
Sells(r, m) == SelectSeq(MarketPositions(r, m), IsSell)

\* C38: no operation removes a position recorded with side sell: in every step the sell
\* positions of every market stay, in order, and new ones are appended; their sizes stay
\* in the market's exposure and in total exposure, and a close_position call on their
\* market and outcome finds no position when they are the only ones of that outcome.
C38_SellPositionsAreNeverRemoved ==
    /\ [][/\ \A m \in Markets :
               /\ Len(Sells(rm', m)) >= Len(Sells(rm, m))
               /\ SubSeq(Sells(rm', m), 1, Len(Sells(rm, m))) = Sells(rm, m)
          /\ (/\ call'.op = "close_position"
              /\ writes' = writes + 1
              /\ BuysOf(MarketPositions(rm, call'.args.market_id),
                        call'.args.outcome) = {}) =>
                 (call'.ret = None /\ rm' = rm)]_vars
    /\ [](\A m \in Markets :
             /\ SumSizes(MarketPositions(rm, m)) >= SumSizes(Sells(rm, m))
             /\ rm.total_exposure >= SumSizes(Sells(rm, m)))

\* C38, witness: a sell position on NO was recorded, close_position was called on its
\* market and outcome and returned none, and the position and its exposure are still there
C38_Witness ==
    /\ call.op = "close_position"
    /\ call.args.outcome = "NO"
    /\ call.ret = None
    /\ Len(Sells(rm, call.args.market_id)) = 1
    /\ rm.total_exposure = 9000

(***************************************************************************)
(* Claims about orders left behind and the dedup sets, under SpecCopy      *)
(***************************************************************************)
\* No process_trade call is running
NoTradeInProcess == \A w \in Wallets : trader[w].pc = "idle"

\* The ledger holds a position with the order's market, outcome, side, price and amount
HasPosition(order) ==
    \E i \in 1..Len(MarketPositions(rm, order.market_id)) :
        LET p == MarketPositions(rm, order.market_id)[i]
        IN /\ p.outcome = order.outcome
           /\ p.side = order.side
           /\ p.entry_price = order.price
           /\ p.size_usd = order.size[1]

\* The orders of the executor's table still pending
PendingOrders == {id \in DOMAIN active_orders : active_orders[id].status = "pending"}

\* The compensating cancel_order calls made so far
Cancellations ==
    UNION {UNION {{log[w][i].cancels[j] : j \in 1..Len(log[w][i].cancels)} :
                    i \in 1..Len(log[w])} : w \in Wallets}

\* C37 as stated: whenever no trade is being processed, every pending order of the
\* executor's table has a position in the ledger, whatever the gateway answered to a
\* compensating cancellation.
C37_EveryPendingOrderHasAPosition ==
    NoTradeInProcess => \A id \in PendingOrders : HasPosition(active_orders[id])

\* C37, amended: whenever no trade is being processed, every pending order has a
\* position in the ledger or is the placed leg of a failed two-leg trade whose
\* cancellation the gateway did not confirm; every placed leg of a failed two-leg trade
\* was handed to cancel_order, and it is cancelled exactly when the gateway confirmed.
C37_PendingOrderHasAPositionOrAnUnconfirmedCancel ==
    /\ NoTradeInProcess =>
           \A id \in PendingOrders :
               \/ HasPosition(active_orders[id])
               \/ \E c \in Cancellations : c.order_id = id /\ c.gateway_called /\ ~c.ret
    /\ \A c \in Cancellations :
           /\ c.gateway_called
           /\ c.order_id \in DOMAIN active_orders
           /\ c.ret <=> active_orders[c.order_id].status = "cancelled"
    /\ \A w \in Wallets : \A i \in 1..Len(log[w]) :
           LET e == log[w][i]
           IN (e.branch = "arbitrage" /\ ~e.ret) =>
                  /\ e.recorded = << >>
                  /\ [j \in 1..Len(e.cancels) |-> e.cancels[j].order_id]
                         = LegsToCancel(e.yes_order, e.no_order)

\* C37, witness: no trade is being processed, the YES leg of a two-leg trade was placed,
\* the NO leg failed, the gateway did not confirm the cancellation, and the YES order is
\* still pending with no position in the ledger
C37_Witness ==
    /\ NoTradeInProcess
    /\ \E w \in Wallets : \E i \in 1..Len(log[w]) :
          LET e == log[w][i]
          IN /\ e.branch = "arbitrage"
             /\ IsSome(e.yes_order)
             /\ ~IsSome(e.no_order)
             /\ Len(e.cancels) = 1
             /\ ~e.cancels[1].ret
             /\ Unwrap(e.yes_order).order_id \in PendingOrders
             /\ ~HasPosition(active_orders[Unwrap(e.yes_order).order_id])

\* C39: a step changes the dedup set of a trader only as the last step of that trader's
\* own successful call, by adding the key of its own trade; the dedup gate of a trader
\* looks a key up in that trader's set alone, so a key marked by one trader is not marked
\* for another.
C39_DedupSetsDoNotInteract ==
    /\ [][\A w \in Wallets :
             /\ copied_trades'[w] # copied_trades[w] =>
                    /\ trader[w].pc \in {"record", "record_both"}
                    /\ copied_trades'[w] =
                           copied_trades[w] \cup {trade_key(Unwrap(trader[w].trade))}
                    /\ \A v \in Wallets \ {w} : copied_trades'[v] = copied_trades[v]
             /\ (trader[w].pc = "idle" /\ Len(log'[w]) > Len(log[w])) =>
                    LET e == log'[w][Len(log'[w])]
                    IN (e.gate = "dedup") <=>
                           (trade_key(Unwrap(e.trade)) \in copied_trades[w])]_vars
    /\ [](\A w \in Wallets : \A i \in 1..Len(log[w]) :
             log[w][i].ret => trade_key(Unwrap(log[w][i].trade)) \in copied_trades[w])

\* C39, witness: the same trade was delivered to both traders and each of them copied
\* it: the second delivery passed the dedup gate although the first trader had marked
\* the key
C39_Witness ==
    /\ Len(log["w1"]) = 1
    /\ Len(log["w2"]) = 1
    /\ log["w1"][1].trade = log["w2"][1].trade
    /\ log["w1"][1].ret
    /\ log["w2"][1].ret
    /\ copied_trades["w1"] = copied_trades["w2"]
    /\ copied_trades["w1"] # {}

\* A trade without transaction hash
HashLess(tr) == ~IsSome(tr.tx_hash)

\* C40: once a trader has copied a trade without hash, every later trade without hash
\* on the same market, outcome and side delivered to it is dropped at the dedup gate
\* with no order placed, also when its price or size differ.
C40_HashLessTradesShareOneKey ==
    \A w \in Wallets : \A i \in 1..Len(log[w]) : \A j \in 1..Len(log[w]) :
        LET a == Unwrap(log[w][i].trade)
            b == Unwrap(log[w][j].trade)
        IN (/\ i < j
            /\ log[w][i].ret
            /\ HashLess(a) /\ HashLess(b)
            /\ a.market_id = b.market_id /\ a.outcome = b.outcome /\ a.side = b.side) =>
               /\ log[w][j].gate = "dedup"
               /\ ~log[w][j].ret
               /\ log[w][j].placements = << >>
               /\ log[w][j].recorded = << >>

\* C40, witness: a trader copied the sale of NO at 0.25 and was then delivered the sale
\* of NO at 0.50, also without hash: a different trade, dropped as already copied
C40_Witness ==
    \E w \in Wallets :
        /\ Len(log[w]) = 2
        /\ log[w][1].ret
        /\ HashLess(Unwrap(log[w][1].trade))
        /\ HashLess(Unwrap(log[w][2].trade))
        /\ Unwrap(log[w][1].trade).price = 25
        /\ Unwrap(log[w][2].trade).price = 50
        /\ log[w][2].gate = "dedup"

====
